---- MODULE Spec2Model ----
(***************************************************************************)
(* A model of TACSAssembler (src/src/TACSAssembler.c): the per-process     *)
(* assembler object, its one-shot setup interface, the reordering and the  *)
(* initialization, for a fixed group of mpiSize processes.                 *)
(*                                                                         *)
(* C arrays are 0-based; they are modelled as sequences and read with      *)
(* At(a, i) == a[i+1].  A pointer is modelled as a sequence of length 0    *)
(* (NULL) or 1 (a pointer to the value), so that an empty array            *)
(* (new int[0]) is different from NULL, as in the code.                    *)
(***************************************************************************)
EXTENDS Integers, Sequences, FiniteSets, TLC

\* ---------------------------------------------------------------------
\* Bounds of the model and parameters of the modelled configuration
\* ---------------------------------------------------------------------
mpiSize == 2              \* number of processes of the communicator
varsPerNode == 1          \* degrees of freedom per node
OwnedPerProc == 2         \* numOwnedNodes passed to each constructor
ElemsPerProc == 1         \* numElements passed to each constructor
DepsPerProc == 1          \* numDependentNodes passed to each constructor
MaxElementNodes == 2      \* largest numNodes() of an element kind
MaxBCs == 1               \* cap on the boundary conditions per process
MaxThreads == 2           \* largest number of threads setNumThreads is given
ThreadedElems == 2        \* numElements of the assemblers that run threads
ChainElems == 4           \* elements of the chain mesh that is distributed
MatElems == 2             \* numElements of the assemblers that create matrices
MaxFuncs == 2             \* largest number of functions or adjoints in a call
MaxAux == 2               \* largest number of auxiliary elements
MaxOwnedCount == 4        \* largest per-process count in the ownership check

ThreadIds == 0 .. (MaxThreads - 1)
Procs == 0 .. (mpiSize - 1)

\* ---------------------------------------------------------------------
\* Pointers and arrays
\* ---------------------------------------------------------------------
NULL == << >>
Ptr(v) == << v >>
Deref(p) == p[1]
IsNull(p) == p = << >>
At(a, i) == a[i + 1]
Range(s) == { s[i] : i \in 1 .. Len(s) }
Max2(a, b) == IF a > b THEN a ELSE b

VARIABLES
  numOwnedNodes,        \* constructor argument, per process
  numElements,          \* constructor argument, per process
  numDependentNodes,    \* constructor argument, per process
  meshInitializedFlag,  \* 0 or 1, per process
  elements,             \* NULL or pointer to the array of elements
  maxElementNodes,
  maxElementSize,
  maxElementIndepNodes,
  elementNodeIndex,     \* NULL or pointer to the offset array
  elementTacsNodes,     \* NULL or pointer to the flat connectivity
  depNodes,             \* NULL or pointer to a dependent-node object
  bcMap,                \* the boundary conditions (TACSBcMap)
  tacsExtNodeNums,      \* NULL or pointer to the external node list
  numExtNodes,
  numNodes,
  extNodeOffset,
  extDistIndices,       \* NULL or pointer to the external indices
  extDist,              \* NULL or pointer to the distributor
  newNodeIndices,       \* NULL or pointer to the stored permutation
  elementData,          \* NULL or pointer to scratch storage (its size)
  pc,                   \* position of each process
  frame,                \* locals of the call a process is inside of
  query,                \* last ownership query and its answer
  residual,             \* the caller's residual vector: its owned entries
  mat,                  \* the caller's matrix: its owned rows
  numThreads,           \* thread_info: the number of threads, per process
  numCompletedElements, \* the cursor of the threaded element loop
  tacsPInfo,            \* the arguments handed to the worker threads
  tacs_mutex,           \* free, or the worker thread that holds it
  threads,              \* position and element of each worker thread
  merged,               \* times each element was merged in this pass
  distMatIndices,       \* NULL or the global numbers of the local nodes
  matPattern,           \* NULL or the rows the last created matrix was given
  feMatBIndices,        \* NULL or the local nodes of the local block
  feMatCIndices,        \* NULL or the local nodes of the coupling block
  feMatBMap,            \* NULL or the global numbers of the local block
  feMatCMap,            \* NULL or the global numbers of the coupling block
  elementRange,         \* the design variable bounds the elements hold
  auxElements,          \* NULL or pointer to the auxiliary elements
  lb,                   \* the caller's array of lower bounds
  ub,                   \* the caller's array of upper bounds
  functionValue,        \* what each function object has accumulated
  funcVals,             \* the caller's array of function values
  fdvSens,              \* the caller's design variable sensitivities
  fXptSens,             \* the caller's nodal sensitivities of the functions
  adjXptSens,           \* the caller's nodal adjoint products
  called                \* the collective calls each caller has made so far

\* the state of the threaded element loop
threadVars ==
  << numThreads, numCompletedElements, tacsPInfo, tacs_mutex, threads, merged >>

\* what the matrix constructors keep
matVars ==
  << distMatIndices, matPattern, feMatBIndices, feMatCIndices, feMatBMap, feMatCMap >>

\* the design data and the outputs of the evaluation calls
evalVars ==
  << elementRange, auxElements, lb, ub, functionValue, funcVals, fdvSens,
     fXptSens, adjXptSens >>

vars == << matVars, evalVars, called, numOwnedNodes, numElements, numDependentNodes,
           meshInitializedFlag, elements, maxElementNodes, maxElementSize,
           maxElementIndepNodes, elementNodeIndex, elementTacsNodes,
           depNodes, bcMap, tacsExtNodeNums, numExtNodes, numNodes,
           extNodeOffset, extDistIndices, extDist, newNodeIndices,
           elementData, pc, frame, query, threadVars, residual, mat >>

\* ---------------------------------------------------------------------
\* TACSVarMap: the ownership ranges (prefix sums of the owned counts)
\* ---------------------------------------------------------------------
RECURSIVE PrefixSum(_, _)
PrefixSum(counts, n) ==
  IF n = 0 THEN 0 ELSE PrefixSum(counts, n - 1) + counts[n - 1]

\* ownerRange[r] for r in 0 .. mpiSize, for the given owned counts
\* prefix sums that leave the count of the last process out
OwnerRangeShort(counts) ==
  [ n \in 0 .. mpiSize |-> PrefixSum(counts, IF n = mpiSize THEN n - 1 ELSE n) ]

OwnerRangeOf(counts) == [ r \in 0 .. mpiSize |-> PrefixSum(counts, r) ]

ownerRange == OwnerRangeOf(numOwnedNodes)

\* the process owning global node g, or -1 when no process does
getOwner(range, g) ==
  IF \E r \in Procs : range[r] <= g /\ g < range[r + 1]
  THEN CHOOSE r \in Procs : range[r] <= g /\ g < range[r + 1]
  ELSE -1

\* ---------------------------------------------------------------------
\* Results of a call.  The value a call returns and whether it prints an
\* error on stderr are outputs of the call; they are given, next to each
\* handler, as functions of the state the call starts in and its inputs.
\* ---------------------------------------------------------------------
\* A non-void function that flows off its end returns an unspecified int:
\* zero or nonzero.
UnspecifiedInt == { 0, 1 }

\* the MPI job as a whole is aborted when one of its processes dies
Running == \A q \in Procs : pc[q] # "crashed"

\* process p is between two calls
Live(p) == Running /\ pc[p] = "idle"

\* process p is inside a call, at the named point
Inside(p, point) == Running /\ pc[p] = point

\* the mutex is not held
Free == -1

\* the argument block of the worker threads as its constructor leaves it:
\* it names no assembler, vector or matrix
NoPInfo == [ tacs |-> NULL, res |-> NULL, mat |-> NULL ]

\* a worker thread that does not exist: before pthread_create, after
\* pthread_join
NoThread == [ at |-> "none", elem |-> -1 ]

NoThreads == [ k \in ThreadIds |-> NoThread ]

\* the locals of a call that spans collective operations
NoFrame ==
  [ order_type |-> "", mat_type |-> "", withResidual |-> FALSE, stale |-> 0,
    extPtr |-> << >>, recvPtr |-> << >>, recvNodes |-> << >>,
    couplingNodes |-> << >>, newNodeNums |-> << >>, newExtNodes |-> << >>,
    extBCs |-> << >> ]

\* the process is killed (segmentation fault, abort); the memory of a dead
\* process is gone, its fields are left as they were before the call
Crash(p) ==
  /\ pc' = [ pc EXCEPT ![p] = "crashed" ]
  /\ frame' = [ frame EXCEPT ![p] = NoFrame ]


\* ---------------------------------------------------------------------
\* Inputs of the setup interface
\* ---------------------------------------------------------------------
FirstOwned(p) == ownerRange[p]
LastOwned(p) == ownerRange[p + 1] - 1
ExtNode(p) == ownerRange[(p + 1) % mpiSize]
TooHigh == ownerRange[mpiSize]
TooLow(p) == - numDependentNodes[p] - 1

\* The ranks whose caller may pass any input, ill-formed ones included; the
\* callers of the other ranks pass well-formed inputs only.
FaultyRanks == { 0 }

\* the node lists an element of process p may be given: well-formed ones
ValidRuns(p) ==
  { << FirstOwned(p), LastOwned(p) >>, << LastOwned(p), ExtNode(p) >> }

\* a run that names a dependent node, for a process that has one
DependentRuns(p) ==
  IF numDependentNodes[p] > 0 THEN { << -1, FirstOwned(p) >> } ELSE { }

\* runs of the wrong length or with an entry that names no node
IllFormedRuns(p) ==
  { << FirstOwned(p) >>, << FirstOwned(p), TooHigh >>,
    << TooLow(p), FirstOwned(p) >> }

RunMenu(p) ==
  ValidRuns(p)
    \cup IF p \in FaultyRanks THEN DependentRuns(p) \cup IllFormedRuns(p)
         ELSE { }

\* the parent lists a dependent node of process p may be given
ValidParents(p) == { << LastOwned(p), ExtNode(p) >> }

ParentMenu(p) ==
  IF p \in FaultyRanks
  THEN ValidParents(p) \cup { << -1 >>, << TooHigh >> }
  ELSE { }

RECURSIVE Repeat(_, _)
Repeat(run, n) == IF n = 0 THEN << >> ELSE Repeat(run, n - 1) \o run

\* CSR arrays of n runs that all equal run
UniformPtr(run, n) == [ i \in 1 .. (n + 1) |-> (i - 1) * Len(run) ]

ConnInputsOf(runs, p) ==
  { [ ptr |-> UniformPtr(run, numElements[p]),
      conn |-> Repeat(run, numElements[p]) ] : run \in runs }

ConnInputs(p) == ConnInputsOf(RunMenu(p), p)

DepInputsOf(runs, p) ==
  { [ ptr |-> UniformPtr(run, numDependentNodes[p]),
      conn |-> Repeat(run, numDependentNodes[p]),
      weights |-> [ i \in 1 .. (numDependentNodes[p] * Len(run)) |-> 1 ] ]
    : run \in runs }

DepInputs(p) == DepInputsOf(ParentMenu(p), p)

\* the element kinds: what an element reports through the Element interface
Element(n, d) ==
  [ numNodes |-> n, numDisplacements |-> d, numVariables |-> n * d ]

ElementKinds(p) ==
  IF p \in FaultyRanks
  THEN { Element(n, varsPerNode) : n \in 1 .. MaxElementNodes }
         \cup { Element(1, varsPerNode + 1) }
  ELSE { Element(2, varsPerNode) }

ElementInputsOf(kinds, p) ==
  { [ i \in 1 .. numElements[p] |-> k ] : k \in kinds }

ElementInputs(p) == ElementInputsOf(ElementKinds(p), p)

BCNodeInputs(p) ==
  { << FirstOwned(p) >> }
    \cup IF p \in FaultyRanks THEN { << FirstOwned(p), ExtNode(p) >> } ELSE { }

\* vars argument of addBCs: NULL or an array of local DOF indices
BCVarInputs == { NULL, Ptr(<< 0 >>) }

\* ---------------------------------------------------------------------
\* setElementConnectivity
\* ---------------------------------------------------------------------
\* an element whose numNodes() differs from its run length
ConnMismatch(es, ptr, n) ==
  \E i \in 0 .. (n - 1) : At(ptr, i + 1) - At(ptr, i) # At(es, i).numNodes

\* the first out-of-range entry of the connectivity: 0 when there is none,
\* 1 when it is >= ownerRange[mpiSize], 2 when it is < -numDependentNodes
RangeError(conn, hi, ndep) ==
  LET bad == { j \in 1 .. Len(conn) : conn[j] >= hi \/ conn[j] < - ndep }
  IN IF bad = {} THEN 0
     ELSE LET j == CHOOSE k \in bad : \A l \in bad : k <= l
          IN IF conn[j] >= hi THEN 1 ELSE 2

SetElementConnectivityStore(p, conn, ptr) ==
  /\ elementNodeIndex' = [ elementNodeIndex EXCEPT ![p] = Ptr(ptr) ]
  /\ elementTacsNodes' =
       [ elementTacsNodes EXCEPT
           ![p] = Ptr(SubSeq(conn, 1, At(ptr, numElements[p]))) ]

\* the call is refused: after initialize(), or after the reordering
setElementConnectivityRejects(p) ==
  meshInitializedFlag[p] = 1 \/ ~ IsNull(tacsExtNodeNums[p])

\* the value setElementConnectivity returns
setElementConnectivityRet(p, conn, ptr) ==
  IF setElementConnectivityRejects(p) THEN { 1 }
  ELSE IF /\ ~ IsNull(elements[p])
          /\ ConnMismatch(Deref(elements[p]), ptr, numElements[p])
       THEN { 1 }
       ELSE IF RangeError(conn, ownerRange[mpiSize], numDependentNodes[p]) # 0
            THEN { -1 }
            ELSE UnspecifiedInt

setElementConnectivity(p, conn, ptr) ==
  /\ Live(p)
  /\ IF setElementConnectivityRejects(p)
     THEN UNCHANGED << elementNodeIndex, elementTacsNodes >>
     ELSE \* the arrays are replaced before anything is checked
          SetElementConnectivityStore(p, conn, ptr)
  /\ UNCHANGED << matVars, evalVars, called, numOwnedNodes, numElements, numDependentNodes,
                  meshInitializedFlag, elements, maxElementNodes,
                  maxElementSize, maxElementIndepNodes, depNodes, bcMap,
                  tacsExtNodeNums, numExtNodes, numNodes, extNodeOffset,
                  extDistIndices, extDist, newNodeIndices, elementData,
                  pc, frame, query, threadVars,
                  residual, mat >>

\* ---------------------------------------------------------------------
\* setElements
\* ---------------------------------------------------------------------
\* number of leading elements whose numDisplacements() matches varsPerNode
RECURSIVE NumChecked(_, _)
NumChecked(es, i) ==
  IF i = Len(es) THEN i
  ELSE IF At(es, i).numDisplacements # varsPerNode THEN i
       ELSE NumChecked(es, i + 1)

RECURSIVE MaxOver(_, _, _)
MaxOver(es, n, field) ==
  IF n = 0 THEN 0
  ELSE Max2(MaxOver(es, n - 1, field),
            IF field = "size" THEN es[n].numVariables ELSE es[n].numNodes)

\* setElements without its check of the initialized flag
setElementsNeverRejects(p) == FALSE

\* the call is refused after initialize()
setElementsRejects(p) == meshInitializedFlag[p] = 1

\* the value setElements returns
setElementsRet(p, es) ==
  IF setElementsRejects(p) THEN 1
  ELSE IF NumChecked(es, 0) < Len(es) THEN 1
       ELSE IF /\ ~ IsNull(elementNodeIndex[p])
               /\ ConnMismatch(es, Deref(elementNodeIndex[p]), numElements[p])
            THEN 1
            ELSE 0

setElements(p, es) ==
  /\ Live(p)
  /\ IF setElementsRejects(p)
     THEN UNCHANGED << elements, maxElementNodes, maxElementSize >>
     ELSE LET k == NumChecked(es, 0)
              \* the pointers are stored before anything is checked; a
              \* mismatching element ends the loop that takes the maxima
          IN /\ elements' = [ elements EXCEPT ![p] = Ptr(es) ]
             /\ maxElementSize' =
                  [ maxElementSize EXCEPT ![p] = MaxOver(es, k, "size") ]
             /\ maxElementNodes' =
                  [ maxElementNodes EXCEPT ![p] = MaxOver(es, k, "nodes") ]
  /\ UNCHANGED << matVars, evalVars, called, numOwnedNodes, numElements, numDependentNodes,
                  meshInitializedFlag, maxElementIndepNodes,
                  elementNodeIndex, elementTacsNodes, depNodes, bcMap,
                  tacsExtNodeNums, numExtNodes, numNodes, extNodeOffset,
                  extDistIndices, extDist, newNodeIndices, elementData,
                  pc, frame, query, threadVars,
                  residual, mat >>

\* ---------------------------------------------------------------------
\* setDependentNodes
\* ---------------------------------------------------------------------
DepNodesNew(tbl) ==
  [ ptr |-> tbl.ptr, conn |-> tbl.conn, weights |-> tbl.weights, refs |-> 1 ]

\* the object behind the pointer has not been deleted
DepNodesValid(p) == ~ IsNull(depNodes[p]) /\ Deref(depNodes[p]).refs > 0

\* the parent check without its test for a negative parent
ParentErrorAboveOnly(tbl, hi, ndep) ==
  \E i \in 0 .. (ndep - 1) :
    \E jp \in At(tbl.ptr, i) .. (At(tbl.ptr, i + 1) - 1) :
      At(tbl.conn, jp) >= hi

\* some parent is out of range or is itself a dependent node
ParentError(tbl, hi, ndep) ==
  \E i \in 0 .. (ndep - 1) :
    \E jp \in At(tbl.ptr, i) .. (At(tbl.ptr, i + 1) - 1) :
      At(tbl.conn, jp) >= hi \/ At(tbl.conn, jp) < 0

\* the call is refused: after initialize(), or after the reordering
setDependentNodesRejects(p) ==
  meshInitializedFlag[p] = 1 \/ ~ IsNull(tacsExtNodeNums[p])

\* the value setDependentNodes returns
setDependentNodesRet(p, tbl) ==
  IF setDependentNodesRejects(p) THEN 1
  ELSE IF ParentError(tbl, ownerRange[mpiSize], numDependentNodes[p]) THEN 1
       ELSE 0

\* the stored object after the leading "if (depNodes){ depNodes->decref(); }":
\* the object is deleted when its reference count reaches zero
DepNodesReleased(d) ==
  IF ~ IsNull(d) /\ Deref(d).refs > 0 THEN Ptr([ Deref(d) EXCEPT !.refs = @ - 1 ])
  ELSE d

setDependentNodes(p, tbl) ==
  /\ Live(p)
  /\ IF setDependentNodesRejects(p)
     THEN UNCHANGED << depNodes, pc, frame >>
     ELSE \/ \* decref() of an object that was already deleted may abort
             /\ ~ IsNull(depNodes[p]) /\ ~ DepNodesValid(p)
             /\ Crash(p)
             /\ UNCHANGED depNodes
          \/ /\ UNCHANGED << pc, frame >>
             /\ IF ParentError(tbl, ownerRange[mpiSize], numDependentNodes[p])
                THEN \* the old object is released before the parents
                     \* are checked
                     depNodes' =
                       [ depNodes EXCEPT ![p] = DepNodesReleased(@) ]
                ELSE depNodes' =
                       [ depNodes EXCEPT ![p] = Ptr(DepNodesNew(tbl)) ]
  /\ UNCHANGED << matVars, evalVars, called, numOwnedNodes, numElements, numDependentNodes,
                  meshInitializedFlag, elements, maxElementNodes,
                  maxElementSize, maxElementIndepNodes, elementNodeIndex,
                  elementTacsNodes, bcMap, tacsExtNodeNums, numExtNodes,
                  numNodes, extNodeOffset, extDistIndices, extDist,
                  newNodeIndices, elementData, query, threadVars,
                  residual, mat >>

\* ---------------------------------------------------------------------
\* addBCs
\* ---------------------------------------------------------------------
\* TACSBcMap::addBC appends one record; vars = NULL constrains nbcs DOFs
BcMapAddBC(bcs, node, nbcs, bvars) ==
  Append(bcs, [ node |-> node,
                vars |-> IF IsNull(bvars) THEN 0 .. (nbcs - 1)
                         ELSE Range(Deref(bvars)) ])

RECURSIVE AddOwnedBCs(_, _, _, _, _, _)
AddOwnedBCs(bcs, nodes, i, nbcs, bvars, p) ==
  IF i = Len(nodes) THEN bcs
  ELSE AddOwnedBCs(
         IF At(nodes, i) >= ownerRange[p] /\ At(nodes, i) < ownerRange[p + 1]
         THEN BcMapAddBC(bcs, At(nodes, i), nbcs, bvars)
         ELSE bcs,
         nodes, i + 1, nbcs, bvars, p)

\* addBCs returns nothing; it prints an error
addBCsError(p) == meshInitializedFlag[p] = 1

addBCs(p, nodes, nbcsIn, bvars) ==
  /\ Live(p)
  /\ IF addBCsError(p)
     THEN UNCHANGED bcMap
     ELSE LET nbcs == IF IsNull(bvars) \/ nbcsIn < 0
                      THEN varsPerNode ELSE nbcsIn
              new == AddOwnedBCs(bcMap[p], nodes, 0, nbcs, bvars, p)
          IN /\ Len(new) <= MaxBCs
             /\ bcMap' = [ bcMap EXCEPT ![p] = new ]
  /\ UNCHANGED << matVars, evalVars, called, numOwnedNodes, numElements, numDependentNodes,
                  meshInitializedFlag, elements, maxElementNodes,
                  maxElementSize, maxElementIndepNodes, elementNodeIndex,
                  elementTacsNodes, depNodes, tacsExtNodeNums, numExtNodes,
                  numNodes, extNodeOffset, extDistIndices, extDist,
                  newNodeIndices, elementData, pc, frame, query, threadVars,
                  residual, mat >>

\* ---------------------------------------------------------------------
\* Sorting and searching (FElibrary)
\* ---------------------------------------------------------------------
RECURSIVE SortSet(_)
SortSet(S) ==
  IF S = {} THEN << >>
  ELSE LET m == CHOOSE x \in S : \A y \in S : x <= y
       IN << m >> \o SortSet(S \ {m})

\* FElibrary::uniqueSort sorts the array in place and moves the distinct
\* values to its front; the entries behind them keep values of the array
UniqueSort(a) ==
  LET u == SortSet(Range(a))
  IN [ i \in 1 .. Len(a) |-> IF i <= Len(u) THEN u[i] ELSE a[i] ]

\* 0-based position of x in array a, or -1 (bsearch)
IndexOf(a, x) ==
  IF \E i \in 1 .. Len(a) : a[i] = x
  THEN (CHOOSE i \in 1 .. Len(a) : a[i] = x) - 1
  ELSE -1

\* FElibrary::matchIntervals: ptr[n] is the number of entries below range[n]
MatchIntervals(range, a) ==
  [ n \in 0 .. mpiSize |->
      Cardinality({ i \in 1 .. Len(a) : a[i] < range[n] }) ]

Permutations0(n) ==
  { f \in [ 1 .. n -> 0 .. (n - 1) ] :
      \A i, j \in 1 .. n : f[i] = f[j] => i = j }

Identity0(n) == [ i \in 1 .. n |-> i - 1 ]

\* ---------------------------------------------------------------------
\* The external node list
\* ---------------------------------------------------------------------
\* the list of external nodes in use: tacsExtNodeNums, else extDistIndices
ExtNodes(p) ==
  IF ~ IsNull(tacsExtNodeNums[p]) THEN tacsExtNodeNums[p]
  ELSE extDistIndices[p]

\* the local number without the shift of the owned nodes behind the
\* external nodes below them
LocalNodeNumNoOffset(node, lo, hi, offset, nowned, ext) ==
  IF node >= lo /\ node < hi THEN node - lo
  ELSE IF node >= 0 /\ ~ IsNull(ext) /\ IndexOf(Deref(ext), node) >= 0
       THEN IF node < lo THEN IndexOf(Deref(ext), node)
            ELSE nowned + IndexOf(Deref(ext), node)
       ELSE -1

\* getLocalNodeNum with the external list ext (NULL or a pointer), -1 on error
LocalNodeNum(node, lo, hi, offset, nowned, ext) ==
  IF node >= lo /\ node < hi THEN (node - lo) + offset
  ELSE IF node >= 0
       THEN IF IsNull(ext) THEN -1
            ELSE LET item == IndexOf(Deref(ext), node)
                 IN IF item < 0 THEN -1
                    ELSE IF node < lo THEN item ELSE nowned + item
       ELSE -1

getLocalNodeNum(p, node) ==
  LocalNodeNum(node, ownerRange[p], ownerRange[p + 1], extNodeOffset[p],
               numOwnedNodes[p], ExtNodes(p))

\* getGlobalNodeNum for a local number node >= 0 with the external list
\* ext (NULL or a pointer), -1 on error
GlobalNodeNum(node, lo, offset, nowned, nnodes, ext) ==
  IF node < offset
  THEN IF IsNull(ext) THEN -1 ELSE At(Deref(ext), node)
  ELSE IF node < offset + nowned THEN (node - offset) + lo
       ELSE IF node < nnodes
            THEN IF IsNull(ext) THEN -1 ELSE At(Deref(ext), node - nowned)
            ELSE -1

getGlobalNodeNum(p, node) ==
  GlobalNodeNum(node, ownerRange[p], extNodeOffset[p], numOwnedNodes[p],
                numNodes[p], ExtNodes(p))

\* the external test without its lower half: only the nodes above the
\* owned range
ExternalEntriesAboveOnly(a, lo, hi) ==
  { a[i] : i \in { j \in 1 .. Len(a) : a[j] >= hi } }

\* the entries of a node array that name nodes owned by another process
ExternalEntries(a, lo, hi) ==
  { a[i] : i \in { j \in 1 .. Len(a) :
                     a[j] >= 0 /\ (a[j] < lo \/ a[j] >= hi) } }

\* the arrays computeExtNodes reads from the dependent-node object
DepConnOf(p) == IF IsNull(depNodes[p]) THEN << >> ELSE Deref(depNodes[p]).conn

\* the result of computeExtNodes on process p
ExtNodeList(p) ==
  SortSet(ExternalEntries(Deref(elementTacsNodes[p]),
                          ownerRange[p], ownerRange[p + 1])
            \cup ExternalEntries(DepConnOf(p),
                                 ownerRange[p], ownerRange[p + 1]))

ExtOffsetOf(ext, lo) == Cardinality({ i \in 1 .. Len(ext) : ext[i] < lo })

\* computeExtNodes: refuses after initialize() or without a connectivity,
\* otherwise sets the external list and the local index layout
computeExtNodes(p) ==
  IF meshInitializedFlag[p] = 1 \/ IsNull(elementNodeIndex[p])
  THEN UNCHANGED << tacsExtNodeNums, numExtNodes, numNodes, extNodeOffset >>
  ELSE LET ext == ExtNodeList(p)
       IN /\ tacsExtNodeNums' = [ tacsExtNodeNums EXCEPT ![p] = Ptr(ext) ]
          /\ numExtNodes' = [ numExtNodes EXCEPT ![p] = Len(ext) ]
          /\ numNodes' =
               [ numNodes EXCEPT ![p] = numOwnedNodes[p] + Len(ext) ]
          /\ extNodeOffset' =
               [ extNodeOffset EXCEPT ![p] = ExtOffsetOf(ext, ownerRange[p]) ]

\* computeExtNodes reads a dependent-node object that was deleted
ReadsDeletedDepNodes(p) == ~ IsNull(depNodes[p]) /\ ~ DepNodesValid(p)

\* ---------------------------------------------------------------------
\* Ordering types
\* ---------------------------------------------------------------------
OrderingTypes ==
  { "NATURAL_ORDER", "RCM_ORDER", "AMD_ORDER", "ND_ORDER", "TACS_AMD_ORDER" }

MatrixOrderingTypes == { "ADDITIVE_SCHWARZ", "APPROXIMATE_SCHUR", "DIRECT_SCHUR" }

\* the arguments the callers of computeReordering pass
OrderingInputs == { "RCM_ORDER" }

MatrixOrderingInputs == { "DIRECT_SCHUR" }

\* values an out-of-bounds or uninitialized int read may produce
Garbage == { -1, 0, TooHigh }

\* ---------------------------------------------------------------------
\* computeReordering: the call, up to its first collective operation
\* ---------------------------------------------------------------------
\* computeReordering returns nothing; it refuses the call with an error
computeReorderingRejects(p) ==
  IsNull(elementNodeIndex[p]) \/ ~ IsNull(tacsExtNodeNums[p])

computeReordering(p, order_type, mat_type) ==
  /\ Live(p)
  /\ IF computeReorderingRejects(p)
     THEN UNCHANGED << tacsExtNodeNums, numExtNodes, numNodes,
                       extNodeOffset, pc, frame >>
     ELSE \/ /\ meshInitializedFlag[p] = 0
             /\ ReadsDeletedDepNodes(p)
             /\ Crash(p)
             /\ UNCHANGED << tacsExtNodeNums, numExtNodes, numNodes,
                             extNodeOffset >>
          \/ \* computeExtNodes refuses after initialize(); its result
             \* is ignored
             /\ computeExtNodes(p)
             /\ pc' = [ pc EXCEPT ![p] = "computeReordering:coupling" ]
             /\ frame' =
                  [ frame EXCEPT
                      ![p] = [ NoFrame EXCEPT
                                 !.order_type = order_type,
                                 !.mat_type = mat_type ] ]
  /\ UNCHANGED << matVars, evalVars, numOwnedNodes, numElements, numDependentNodes,
                  meshInitializedFlag, elements, maxElementNodes,
                  maxElementSize, maxElementIndepNodes, elementNodeIndex,
                  elementTacsNodes, depNodes, bcMap, extDistIndices, extDist,
                  newNodeIndices, elementData, query, threadVars,
                  residual, mat >>

\* ---------------------------------------------------------------------
\* computeCouplingNodes: the all-to-all exchange of the external nodes
\* ---------------------------------------------------------------------
\* the external nodes computeCouplingNodes sends: extDistIndices when it
\* exists, else tacsExtNodeNums
CouplingExtNodes(p) ==
  IF ~ IsNull(extDistIndices[p]) THEN Deref(extDistIndices[p])
  ELSE Deref(tacsExtNodeNums[p])

ExtPtrOf(p) == MatchIntervals(ownerRange, CouplingExtNodes(p))

\* the external nodes q sends to their owner p
SentTo(q, p) ==
  IF q = p THEN << >>
  ELSE SubSeq(CouplingExtNodes(q), ExtPtrOf(q)[p] + 1, ExtPtrOf(q)[p + 1])

RECURSIVE RecvFrom(_, _)
\* what p receives from the processes 0 .. n-1, in rank order
RecvFrom(p, n) ==
  IF n = 0 THEN << >> ELSE RecvFrom(p, n - 1) \o SentTo(n - 1, p)

RecvPtrOf(p) == [ n \in 0 .. mpiSize |-> Len(RecvFrom(p, n)) ]

\* the local numbers of the coupling nodes of p, given the received nodes
CouplingNodesOf(p, recv) ==
  LET u == SortSet(Range(recv))
  IN [ i \in 1 .. extNodeOffset[p] |-> i - 1 ]
       \o [ i \in 1 .. Len(u) |-> getLocalNodeNum(p, u[i]) ]
       \o [ i \in 1 .. (numExtNodes[p] - extNodeOffset[p]) |->
              numOwnedNodes[p] + extNodeOffset[p] + (i - 1) ]

AtCoupling(p) ==
  pc[p] \in { "computeReordering:coupling", "initialize:coupling",
              "createFEMat:coupling" }

AfterCoupling(p) ==
  IF pc[p] = "computeReordering:coupling" THEN "computeReordering:order"
  ELSE IF pc[p] = "createFEMat:coupling" THEN "createFEMat:order"
       ELSE "initialize:bcs"

computeCouplingNodes ==
  /\ \A p \in Procs : AtCoupling(p)
  /\ pc' = [ p \in Procs |-> AfterCoupling(p) ]
  /\ frame' =
       [ p \in Procs |->
           [ frame[p] EXCEPT
               !.extPtr = ExtPtrOf(p),
               !.recvPtr = RecvPtrOf(p),
               !.recvNodes = RecvFrom(p, mpiSize),
               !.couplingNodes = CouplingNodesOf(p, RecvFrom(p, mpiSize)) ] ]
  /\ UNCHANGED << matVars, evalVars, called, numOwnedNodes, numElements, numDependentNodes,
                  meshInitializedFlag, elements, maxElementNodes,
                  maxElementSize, maxElementIndepNodes, elementNodeIndex,
                  elementTacsNodes, depNodes, bcMap, tacsExtNodeNums,
                  numExtNodes, numNodes, extNodeOffset, extDistIndices,
                  extDist, newNodeIndices, elementData, query, threadVars,
                  residual, mat >>

\* ---------------------------------------------------------------------
\* Node-to-node adjacency (computeNodeToElementCSR, computeLocalNodeToNodeCSR)
\* ---------------------------------------------------------------------
\* the independent parents of the dependent node named by node < 0
DepParents(p, node) ==
  LET dep == - node - 1
  IN IF IsNull(depNodes[p]) \/ dep >= numDependentNodes[p] THEN << >>
     ELSE SubSeq(Deref(depNodes[p]).conn,
                 At(Deref(depNodes[p]).ptr, dep) + 1,
                 At(Deref(depNodes[p]).ptr, dep + 1))

\* the connectivity run of element e (0-based)
ElementRun(p, e) ==
  SubSeq(Deref(elementTacsNodes[p]),
         At(Deref(elementNodeIndex[p]), e) + 1,
         At(Deref(elementNodeIndex[p]), e + 1))

\* the local numbers of the independent nodes of element e
ElementLocalNodes(p, e) ==
  LET run == ElementRun(p, e)
      indep == UNION { IF run[k] >= 0 THEN { run[k] }
                       ELSE Range(DepParents(p, run[k])) : k \in 1 .. Len(run) }
  IN { getLocalNodeNum(p, g) : g \in indep }

\* the elements that reference local node i, directly or through a
\* dependent node
NodeToElements(p, i) ==
  { e \in 0 .. (numElements[p] - 1) : i \in ElementLocalNodes(p, e) }

RECURSIVE Flatten(_)
\* the entries of a sequence of arrays, one array after the other
Flatten(ss) == IF ss = << >> THEN << >> ELSE Head(ss) \o Flatten(Tail(ss))

\* the visits of an element loop that looks at the nodes named directly only
ElementDirectSeq(p, e) ==
  LET run == ElementRun(p, e)
  IN Flatten([ k \in 1 .. Len(run) |->
                 IF run[k] >= 0 THEN << getLocalNodeNum(p, run[k]) >>
                 ELSE << >> ])

\* the local numbers the loops over element e visit, in their order: the
\* node itself, or the parents of a dependent node
ElementIndepSeq(p, e) ==
  LET run == ElementRun(p, e)
  IN Flatten([ k \in 1 .. Len(run) |->
                 IF run[k] >= 0 THEN << getLocalNodeNum(p, run[k]) >>
                 ELSE [ j \in 1 .. Len(DepParents(p, run[k])) |->
                          getLocalNodeNum(p, DepParents(p, run[k])[j]) ] ])

\* the element recorded for every visit of local node i by element e
ElementVisits(p, e, i) ==
  LET s == ElementIndepSeq(p, e)
  IN Flatten([ k \in 1 .. Len(s) |-> IF s[k] = i THEN << e >> ELSE << >> ])

\* matutils::SortAndUniquifyCSR for one row: sorted, without duplicates,
\* without the diagonal when nodiag is set
SortAndUniquifyCSR(row, i, nodiag) ==
  SortSet(Range(row) \ (IF nodiag = 1 THEN { i } ELSE { }))

\* computeNodeToElementCSR: for every local node the elements that visit
\* it, sorted and without duplicates
computeNodeToElementCSR(p) ==
  [ i \in 0 .. (numNodes[p] - 1) |->
      SortAndUniquifyCSR(
        Flatten([ e \in 1 .. numElements[p] |-> ElementVisits(p, e - 1, i) ]),
        i, 0) ]

\* computeLocalNodeToNodeCSR (full variant): for every local node the
\* nodes of the elements of its node-to-element row, then sorted
computeLocalNodeToNodeCSR(p, nodiag) ==
  LET nodeToElements == computeNodeToElementCSR(p)
  IN [ i \in 0 .. (numNodes[p] - 1) |->
         SortAndUniquifyCSR(
           Flatten([ jp \in 1 .. Len(nodeToElements[i]) |->
                       ElementIndepSeq(p, nodeToElements[i][jp]) ]),
           i, nodiag) ]

\* the row of local node i: sorted, without duplicates
AdjacencyRow(p, i, nodiag) == computeLocalNodeToNodeCSR(p, nodiag)[i]

\* computeNodeToElementCSR reads depNodePtr = NULL for a dependent node
CSRNullDeref(p) ==
  /\ IsNull(depNodes[p])
  /\ \E k \in 1 .. Len(Deref(elementTacsNodes[p])) :
       Deref(elementTacsNodes[p])[k] < 0

\* it reads a deleted dependent-node object, or past the end of its arrays
CSRUndefined(p) ==
  /\ ~ IsNull(depNodes[p])
  /\ \/ ~ DepNodesValid(p)
     \/ \E k \in 1 .. Len(Deref(elementTacsNodes[p])) :
          - Deref(elementTacsNodes[p])[k] - 1 >= numDependentNodes[p]

\* ---------------------------------------------------------------------
\* computeMatReordering: the ordering back ends
\* ---------------------------------------------------------------------
\* new_vars for nvars nodes: the identity for NATURAL_ORDER; RCM, AMD,
\* nested dissection and the TACS AMD variant are external libraries that
\* return some permutation
computeMatReordering(order_type, nvars) ==
  IF order_type = "NATURAL_ORDER" THEN { Identity0(nvars) }
  ELSE Permutations0(nvars)

\* ---------------------------------------------------------------------
\* computeReordering: the local ordering between the two exchanges
\* ---------------------------------------------------------------------
OwnedLocal(p) ==
  extNodeOffset[p] .. (extNodeOffset[p] + numOwnedNodes[p] - 1)

ExternalLocal(p) == (0 .. (numNodes[p] - 1)) \ OwnedLocal(p)

\* the reduced set of every matrix type: the external nodes alone
ReducedOutExternalOnly(p, mat_type, couplingNodes) == ExternalLocal(p)

\* the local nodes with reducedNodes[i] = -1 before the first ordering
ReducedOut(p, mat_type, couplingNodes) ==
  ExternalLocal(p)
    \cup (IF mat_type = "DIRECT_SCHUR" THEN Range(couplingNodes)
          ELSE IF mat_type = "APPROXIMATE_SCHUR"
               THEN UNION { Range(AdjacencyRow(p, c, 0)) :
                              c \in Range(couplingNodes) }
               ELSE { })

\* the two orderings with the second block numbered from the same offset
\* as the first
OwnedNewNumsSameOffset(p, mat_type, couplingNodes, perm1, perm2) ==
  LET out == ReducedOut(p, mat_type, couplingNodes)
      first == SortSet(OwnedLocal(p) \ out)
      last == SortSet(OwnedLocal(p) \cap out)
  IN [ k \in 1 .. numNodes[p] |->
         IF IndexOf(first, k - 1) >= 0
         THEN Ptr(ownerRange[p] + perm1[IndexOf(first, k - 1) + 1])
         ELSE IF IndexOf(last, k - 1) >= 0
              THEN Ptr(ownerRange[p] + perm2[IndexOf(last, k - 1) + 1])
              ELSE NULL ]

\* newNodeNums after both orderings: a pointer to the new number for an
\* ordered node, NULL for an entry that has not been written
OwnedNewNums(p, mat_type, couplingNodes, perm1, perm2) ==
  LET out == ReducedOut(p, mat_type, couplingNodes)
      first == SortSet(OwnedLocal(p) \ out)
      last == SortSet(OwnedLocal(p) \cap out)
      offset == ownerRange[p]
  IN [ k \in 1 .. numNodes[p] |->
         IF IndexOf(first, k - 1) >= 0
         THEN Ptr(offset + perm1[IndexOf(first, k - 1) + 1])
         ELSE IF IndexOf(last, k - 1) >= 0
              THEN Ptr(offset + Len(first) + perm2[IndexOf(last, k - 1) + 1])
              ELSE NULL ]

AllNewNums(p, perm) == [ k \in 1 .. numNodes[p] |-> Ptr(perm[k]) ]

NumFirst(p, mat_type, couplingNodes) ==
  Cardinality(OwnedLocal(p) \ ReducedOut(p, mat_type, couplingNodes))

NumLast(p, mat_type, couplingNodes) ==
  Cardinality(OwnedLocal(p) \cap ReducedOut(p, mat_type, couplingNodes))

\* the new number of the node with global number node; NULL when the read
\* is out of bounds or of an unwritten entry
NewNumOf(p, nn, node) ==
  LET l == getLocalNodeNum(p, node)
  IN IF l < 0 \/ l >= Len(nn) THEN NULL ELSE At(nn, l)

Resolve(v, g) == IF IsNull(v) THEN g ELSE Deref(v)

computeReorderingOrder(p) ==
  /\ Inside(p, "computeReordering:order")
  /\ \/ /\ CSRNullDeref(p) \/ CSRUndefined(p)
        /\ Crash(p)
     \/ /\ ~ CSRNullDeref(p)
        /\ LET f == frame[p]
               n1 == IF mpiSize = 1 THEN numNodes[p]
                     ELSE NumFirst(p, f.mat_type, f.couplingNodes)
               n2 == IF mpiSize = 1 THEN 0
                     ELSE NumLast(p, f.mat_type, f.couplingNodes)
           IN \E perm1 \in computeMatReordering(f.order_type, n1) :
                \E perm2 \in computeMatReordering(f.order_type, n2) :
                  LET nn == IF mpiSize = 1 THEN AllNewNums(p, perm1)
                            ELSE OwnedNewNums(p, f.mat_type, f.couplingNodes,
                                              perm1, perm2)
                  IN \E g \in Garbage :
                       frame' =
                         [ frame EXCEPT
                             ![p] = [ f EXCEPT
                                 !.newNodeNums = nn,
                                 !.recvNodes =
                                   [ i \in 1 .. Len(f.recvNodes) |->
                                       Resolve(NewNumOf(p, nn, f.recvNodes[i]),
                                               g) ] ] ]
        /\ pc' = [ pc EXCEPT ![p] = "computeReordering:exchange" ]
  /\ UNCHANGED << matVars, evalVars, called, numOwnedNodes, numElements, numDependentNodes,
                  meshInitializedFlag, elements, maxElementNodes,
                  maxElementSize, maxElementIndepNodes, elementNodeIndex,
                  elementTacsNodes, depNodes, bcMap, tacsExtNodeNums,
                  numExtNodes, numNodes, extNodeOffset, extDistIndices,
                  extDist, newNodeIndices, elementData, query, threadVars,
                  residual, mat >>

\* ---------------------------------------------------------------------
\* computeReordering: the exchange of the new numbers of the external nodes
\* ---------------------------------------------------------------------
\* the exchange that hands every external node back with the number it had
NewExtNodeUnchanged(p, i) ==
  IF i < Len(CouplingExtNodes(p)) THEN Ptr(At(CouplingExtNodes(p), i))
  ELSE NULL

\* entry i (0-based) of newExtNodes on p: sent by the owner q of the i-th
\* external node; nothing is received for an entry in p's own range
NewExtNode(p, i) ==
  LET from == { r \in Procs :
                  frame[p].extPtr[r] <= i /\ i < frame[p].extPtr[r + 1] }
      q == CHOOSE r \in from : TRUE
  IN IF from = { } \/ p \in from THEN NULL
     ELSE Ptr(At(frame[q].recvNodes,
                 frame[q].recvPtr[p] + (i - frame[p].extPtr[q])))

computeReorderingExchange ==
  /\ \A p \in Procs : pc[p] = "computeReordering:exchange"
  /\ pc' = [ p \in Procs |-> "computeReordering:rewrite" ]
  /\ frame' =
       [ p \in Procs |->
           [ frame[p] EXCEPT
               !.newExtNodes =
                 [ i \in 1 .. frame[p].extPtr[mpiSize] |->
                     NewExtNode(p, i - 1) ] ] ]
  /\ UNCHANGED << matVars, evalVars, called, numOwnedNodes, numElements, numDependentNodes,
                  meshInitializedFlag, elements, maxElementNodes,
                  maxElementSize, maxElementIndepNodes, elementNodeIndex,
                  elementTacsNodes, depNodes, bcMap, tacsExtNodeNums,
                  numExtNodes, numNodes, extNodeOffset, extDistIndices,
                  extDist, newNodeIndices, elementData, query, threadVars,
                  residual, mat >>

\* ---------------------------------------------------------------------
\* computeReordering: rewriting every node reference
\* ---------------------------------------------------------------------
\* newNodeNums with the received numbers of the external nodes filled in
FullNewNums(p) ==
  LET f == frame[p]
      ne(i) == IF i < Len(f.newExtNodes) THEN At(f.newExtNodes, i) ELSE NULL
  IN [ k \in 1 .. numNodes[p] |->
         IF k - 1 < extNodeOffset[p] THEN ne(k - 1)
         ELSE IF k - 1 >= extNodeOffset[p] + numOwnedNodes[p]
              THEN ne(k - 1 - numOwnedNodes[p])
              ELSE f.newNodeNums[k] ]

\* a rewriting that leaves every entry as it was
RenumberNothing(p, nn, a, g) == a

Renumber(p, nn, a, g) ==
  [ i \in 1 .. Len(a) |->
      IF a[i] >= 0 THEN Resolve(NewNumOf(p, nn, a[i]), g) ELSE a[i] ]

\* some read of the rewriting step is out of bounds or of an unwritten entry
RewriteUndefined(p, nn) ==
  \/ \E k \in 1 .. Len(nn) : IsNull(nn[k])
  \/ \E i \in 1 .. Len(Deref(elementTacsNodes[p])) :
       /\ Deref(elementTacsNodes[p])[i] >= 0
       /\ IsNull(NewNumOf(p, nn, Deref(elementTacsNodes[p])[i]))
  \/ \E i \in 1 .. Len(DepConnOf(p)) : IsNull(NewNumOf(p, nn, DepConnOf(p)[i]))
  \/ \E i \in 1 .. Len(bcMap[p]) : IsNull(NewNumOf(p, nn, bcMap[p][i].node))
  \/ ReadsDeletedDepNodes(p)

computeReorderingRewrite(p) ==
  /\ Inside(p, "computeReordering:rewrite")
  /\ LET nn == FullNewNums(p)
     IN \/ \* the external list is written through a NULL pointer, or
           \* undefined reads bring the process down
           /\ \/ IsNull(tacsExtNodeNums[p]) /\ numExtNodes[p] > 0
              \/ RewriteUndefined(p, nn)
           /\ Crash(p)
           /\ UNCHANGED << elementTacsNodes, depNodes, bcMap,
                           tacsExtNodeNums, newNodeIndices >>
        \/ /\ ~ (IsNull(tacsExtNodeNums[p]) /\ numExtNodes[p] > 0)
           /\ \E g \in Garbage :
                /\ depNodes' =
                     [ depNodes EXCEPT
                         ![p] = IF IsNull(depNodes[p]) THEN NULL
                                ELSE Ptr([ Deref(depNodes[p]) EXCEPT
                                    !.conn = [ i \in 1 .. Len(DepConnOf(p)) |->
                                      Resolve(NewNumOf(p, nn, DepConnOf(p)[i]),
                                              g) ] ]) ]
                /\ elementTacsNodes' =
                     [ elementTacsNodes EXCEPT
                         ![p] = Ptr(Renumber(p, nn,
                                             Deref(elementTacsNodes[p]), g)) ]
                /\ bcMap' =
                     [ bcMap EXCEPT
                         ![p] = [ i \in 1 .. Len(bcMap[p]) |->
                                    [ bcMap[p][i] EXCEPT
                                        !.node =
                                          Resolve(NewNumOf(p, nn,
                                                    bcMap[p][i].node), g) ] ] ]
                /\ tacsExtNodeNums' =
                     [ tacsExtNodeNums EXCEPT
                         ![p] =
                           IF IsNull(tacsExtNodeNums[p]) THEN NULL
                           ELSE Ptr(UniqueSort(
                                  [ i \in 1 .. numExtNodes[p] |->
                                      Resolve(
                                        At(nn, IF i - 1 < extNodeOffset[p]
                                               THEN i - 1
                                               ELSE i - 1 + numOwnedNodes[p]),
                                        g) ])) ]
                /\ newNodeIndices' =
                     [ newNodeIndices EXCEPT
                         ![p] = Ptr([ k \in 1 .. Len(nn) |->
                                        Resolve(nn[k], g) ]) ]
           /\ pc' = [ pc EXCEPT ![p] = "idle" ]
           /\ frame' = [ frame EXCEPT ![p] = NoFrame ]
  /\ UNCHANGED << matVars, evalVars, called, numOwnedNodes, numElements, numDependentNodes,
                  meshInitializedFlag, elements, maxElementNodes,
                  maxElementSize, maxElementIndepNodes, elementNodeIndex,
                  numExtNodes, numNodes, extNodeOffset, extDistIndices,
                  extDist, elementData, query, threadVars,
                  residual, mat >>

\* ---------------------------------------------------------------------
\* initialize: the call, up to its first collective operation
\* ---------------------------------------------------------------------
\* the checks of initialize() without the one for a missing element list
initializeRejectsWithElements(p) ==
  \/ meshInitializedFlag[p] = 1
  \/ numDependentNodes[p] > 0 /\ IsNull(depNodes[p])
  \/ IsNull(elementNodeIndex[p])

\* the checks that make initialize() return 1 before it changes anything
initializeRejects(p) ==
  \/ meshInitializedFlag[p] = 1
  \/ numDependentNodes[p] > 0 /\ IsNull(depNodes[p])
  \/ IsNull(elements[p])
  \/ IsNull(elementNodeIndex[p])

\* the value initialize returns: it has no return statement on success
initializeRet(p) == IF initializeRejects(p) THEN { 1 } ELSE UnspecifiedInt

RECURSIVE IndepNodes(_, _, _)
\* nnodes of a connectivity run: one per independent node, the number of
\* parents per dependent node; g stands for a read past depNodePtr
IndepNodes(p, run, g) ==
  IF run = << >> THEN 0
  ELSE LET v == Head(run)
           dep == - v - 1
           n == IF v >= 0 \/ numDependentNodes[p] = 0 THEN 1
                ELSE IF dep < numDependentNodes[p]
                     THEN At(Deref(depNodes[p]).ptr, dep + 1)
                            - At(Deref(depNodes[p]).ptr, dep)
                     ELSE g
       IN n + IndepNodes(p, Tail(run), g)

RECURSIVE MaxIndepNodes(_, _, _)
\* maxElementIndepNodes after the loop over the first n elements
MaxIndepNodes(p, n, g) ==
  IF n = 0 THEN maxElementNodes[p]
  ELSE Max2(MaxIndepNodes(p, n - 1, g), IndepNodes(p, ElementRun(p, n - 1), g))

\* the loop reads a deleted dependent-node object or past depNodePtr
IndepUndefined(p) ==
  /\ numDependentNodes[p] > 0
  /\ \/ ~ DepNodesValid(p)
     \/ \E k \in 1 .. Len(Deref(elementTacsNodes[p])) :
          - Deref(elementTacsNodes[p])[k] - 1 >= numDependentNodes[p]

initialize(p) ==
  /\ Live(p)
  /\ IF initializeRejects(p)
     THEN UNCHANGED << meshInitializedFlag, maxElementIndepNodes,
                       tacsExtNodeNums, numExtNodes, numNodes, extNodeOffset,
                       extDistIndices, extDist, pc, frame >>
     ELSE \/ /\ ReadsDeletedDepNodes(p) \/ IndepUndefined(p)
             /\ Crash(p)
             /\ UNCHANGED << meshInitializedFlag, maxElementIndepNodes,
                             tacsExtNodeNums, numExtNodes, numNodes,
                             extNodeOffset, extDistIndices, extDist >>
          \/ \E g \in IF IndepUndefined(p) THEN Garbage ELSE { 0 } :
               LET fresh == IsNull(tacsExtNodeNums[p])
                   \* computeExtNodes runs when no external list exists
                   ext == IF fresh THEN ExtNodeList(p)
                          ELSE Deref(tacsExtNodeNums[p])
               IN /\ numExtNodes' =
                       [ numExtNodes EXCEPT
                           ![p] = IF fresh THEN Len(ext) ELSE @ ]
                  /\ numNodes' =
                       [ numNodes EXCEPT
                           ![p] = IF fresh THEN numOwnedNodes[p] + Len(ext)
                                  ELSE @ ]
                  /\ extNodeOffset' =
                       [ extNodeOffset EXCEPT
                           ![p] = IF fresh THEN ExtOffsetOf(ext, ownerRange[p])
                                  ELSE @ ]
                  /\ meshInitializedFlag' =
                       [ meshInitializedFlag EXCEPT ![p] = 1 ]
                  /\ maxElementIndepNodes' =
                       [ maxElementIndepNodes EXCEPT
                           ![p] = MaxIndepNodes(p, numElements[p], g) ]
                  \* the index object takes the list over
                  /\ extDistIndices' = [ extDistIndices EXCEPT ![p] = Ptr(ext) ]
                  /\ tacsExtNodeNums' = [ tacsExtNodeNums EXCEPT ![p] = NULL ]
                  /\ extDist' = [ extDist EXCEPT ![p] = Ptr(ext) ]
                  /\ pc' = [ pc EXCEPT ![p] = "initialize:coupling" ]
                  /\ frame' = [ frame EXCEPT ![p] = NoFrame ]
  /\ UNCHANGED << matVars, evalVars, numOwnedNodes, numElements, numDependentNodes, elements,
                  maxElementNodes, maxElementSize, elementNodeIndex,
                  elementTacsNodes, depNodes, bcMap, newNodeIndices,
                  elementData, query, threadVars,
                  residual, mat >>

\* ---------------------------------------------------------------------
\* scatterExternalBCs: the exchange of the boundary conditions of the
\* coupling nodes, and the rest of initialize
\* ---------------------------------------------------------------------
\* a search that finds none of the boundary nodes among the received nodes
RecvNoBCs(p, k) == << >>

\* recvBCs: the boundary conditions of p on the nodes received from k
RecvBCs(p, k) ==
  LET seg == SubSeq(frame[p].recvNodes,
                    frame[p].recvPtr[k] + 1, frame[p].recvPtr[k + 1])
  IN SelectSeq(bcMap[p], LAMBDA b : b.node \in Range(seg))

RECURSIVE ExtBCsFrom(_, _)
\* extBCs: what p receives from the processes 0 .. n-1, in rank order
ExtBCsFrom(p, n) ==
  IF n = 0 THEN << >> ELSE ExtBCsFrom(p, n - 1) \o RecvBCs(n - 1, p)

scatterExternalBCs ==
  /\ \A p \in Procs : pc[p] = "initialize:bcs"
  /\ pc' = [ p \in Procs |-> "initialize:finish" ]
  /\ frame' =
       [ p \in Procs |->
           [ frame[p] EXCEPT !.extBCs = ExtBCsFrom(p, mpiSize) ] ]
  /\ UNCHANGED << matVars, evalVars, called, numOwnedNodes, numElements, numDependentNodes,
                  meshInitializedFlag, elements, maxElementNodes,
                  maxElementSize, maxElementIndepNodes, elementNodeIndex,
                  elementTacsNodes, depNodes, bcMap, tacsExtNodeNums,
                  numExtNodes, numNodes, extNodeOffset, extDistIndices,
                  extDist, newNodeIndices, elementData, query, threadVars,
                  residual, mat >>

\* the received conditions are added, the vectors and the element work
\* arrays are allocated
initializeFinish(p) ==
  /\ Inside(p, "initialize:finish")
  /\ bcMap' = [ bcMap EXCEPT ![p] = bcMap[p] \o frame[p].extBCs ]
  /\ elementData' =
       [ elementData EXCEPT
           ![p] = Ptr([ idataSize |->
                          maxElementIndepNodes[p] + maxElementNodes[p] + 1 ]) ]
  /\ pc' = [ pc EXCEPT ![p] = "idle" ]
  /\ frame' = [ frame EXCEPT ![p] = NoFrame ]
  /\ UNCHANGED << matVars, evalVars, called, numOwnedNodes, numElements, numDependentNodes,
                  meshInitializedFlag, elements, maxElementNodes,
                  maxElementSize, maxElementIndepNodes, elementNodeIndex,
                  elementTacsNodes, depNodes, tacsExtNodeNums, numExtNodes,
                  numNodes, extNodeOffset, extDistIndices, extDist,
                  newNodeIndices, query, threadVars,
                  residual, mat >>

\* ---------------------------------------------------------------------
\* Assembly: what the elements of a process add to a node and to a matrix
\* entry.  The element kernels add 1 to every entry of elemRes and elemMat.
\* ---------------------------------------------------------------------
RECURSIVE SumSeq(_)
SumSeq(a) == IF a = << >> THEN 0 ELSE Head(a) + SumSeq(Tail(a))

\* the weight with which connectivity entry v feeds global node n: 1 for
\* the node itself, the weights of n among the parents of a dependent node
NodeWeight(p, v, n) ==
  IF v >= 0 THEN IF v = n THEN 1 ELSE 0
  ELSE LET dep == - v - 1
       IN IF IsNull(depNodes[p]) \/ dep >= numDependentNodes[p] THEN 0
          ELSE LET d == Deref(depNodes[p])
               IN SumSeq([ j \in 1 .. (At(d.ptr, dep + 1) - At(d.ptr, dep)) |->
                             IF At(d.conn, At(d.ptr, dep) + j - 1) = n
                             THEN At(d.weights, At(d.ptr, dep) + j - 1)
                             ELSE 0 ])

\* entry k (1-based) of the element array of element e: written by the
\* kernel up to the element's size, g (stale scratch) behind it
ElemEntry(p, e, k, g) ==
  IF k <= At(Deref(elements[p]), e).numNodes THEN 1 ELSE g

\* setValues(len, nodes, elemRes, ADD_VALUES) summed over the elements;
\* direct = TRUE keeps the entries that name n itself, FALSE the entries
\* that reach n through a dependent node
ResContribution(p, n, g, direct) ==
  SumSeq([ e \in 1 .. numElements[p] |->
             SumSeq([ k \in 1 .. Len(ElementRun(p, e - 1)) |->
                        IF (ElementRun(p, e - 1)[k] >= 0) = direct
                        THEN NodeWeight(p, ElementRun(p, e - 1)[k], n)
                               * ElemEntry(p, e - 1, k, g)
                        ELSE 0 ]) ])

\* addMatValues summed over the elements, for the entry (r, c)
MatContribution(p, r, c, g) ==
  SumSeq([ e \in 1 .. numElements[p] |->
             SumSeq([ k \in 1 .. Len(ElementRun(p, e - 1)) |->
               SumSeq([ l \in 1 .. Len(ElementRun(p, e - 1)) |->
                          NodeWeight(p, ElementRun(p, e - 1)[k], r)
                            * NodeWeight(p, ElementRun(p, e - 1)[l], c)
                            * ElemEntry(p, e - 1, k, g)
                            * ElemEntry(p, e - 1, l, g) ]) ]) ])

\* node n carries a boundary condition on process p
HasBC(p, n) == \E i \in 1 .. Len(bcMap[p]) : bcMap[p][i].node = n

\* the element loop reads a NULL pointer: before initialize() the vectors
\* of the assembler (xptVec, varsVec, ...) do not exist
LoopNullDeref(p) ==
  /\ numElements[p] > 0
  /\ \/ meshInitializedFlag[p] = 0
     \/ IsNull(elementNodeIndex[p])
     \/ IsNull(elements[p])

\* the element loop reads stale scratch, a deleted dependent-node object or
\* an entry that names no node
LoopUndefined(p) ==
  /\ ~ LoopNullDeref(p)
  /\ \/ ReadsDeletedDepNodes(p)
     \/ ConnMismatch(Deref(elements[p]), Deref(elementNodeIndex[p]),
                     numElements[p])
     \/ RangeError(Deref(elementTacsNodes[p]), ownerRange[mpiSize],
                   numDependentNodes[p]) # 0

ZeroVec(p) == [ i \in 1 .. numOwnedNodes[p] |-> 0 ]

ZeroMat(p) == [ rc \in DOMAIN mat[p] |-> 0 ]

\* the accumulators after the element loop of process p
LoopVec(p, g) ==
  [ i \in 1 .. numOwnedNodes[p] |->
      ResContribution(p, ownerRange[p] + i - 1, g, TRUE) ]

LoopMat(p, g) ==
  [ rc \in DOMAIN mat[p] |-> MatContribution(p, rc[1], rc[2], g) ]

\* the garbage value the element loop of p has read
LoopGarbage(p) == IF LoopUndefined(p) THEN Garbage ELSE { 0 }

\* the arguments of the assemble calls: the caller's accumulator, or NULL
VecInputs(p) ==
  { Ptr("residual") } \cup IF p \in FaultyRanks THEN { NULL } ELSE { }

MatInputs(p) == { Ptr("A") } \cup IF p \in FaultyRanks THEN { NULL } ELSE { }

\* the processes whose caller may start an assembly: a well-formed caller
\* has initialized the assembler first
AssemblyCallers ==
  { p \in Procs : p \in FaultyRanks \/ meshInitializedFlag[p] = 1 }

\* the well-formed inputs of the setup calls
WellFormedConn(p) == ConnInputsOf(ValidRuns(p) \cup DependentRuns(p), p)

WellFormedElements(p) == ElementInputsOf({ Element(2, varsPerNode) }, p)

WellFormedDeps(p) ==
  IF numDependentNodes[p] > 0 THEN DepInputsOf(ValidParents(p), p) ELSE { }


\* ---------------------------------------------------------------------
\* assembleRes
\* ---------------------------------------------------------------------
assembleRes(p, res) ==
  /\ Live(p)
  /\ numThreads[p] = 1
  /\ IF IsNull(res)
     THEN \* residual->zeroEntries() through a NULL pointer
          /\ Crash(p)
          /\ UNCHANGED residual
     ELSE \/ \* the residual is zeroed, then the loop brings the process down
             /\ LoopNullDeref(p) \/ LoopUndefined(p)
             /\ residual' = [ residual EXCEPT ![p] = ZeroVec(p) ]
             /\ Crash(p)
          \/ /\ ~ LoopNullDeref(p)
             /\ \E g \in LoopGarbage(p) :
                  /\ residual' = [ residual EXCEPT ![p] = LoopVec(p, g) ]
                  /\ frame' = [ frame EXCEPT
                                  ![p] = [ NoFrame EXCEPT
                                             !.withResidual = TRUE,
                                             !.stale = g ] ]
             /\ pc' = [ pc EXCEPT ![p] = "assembleRes:setValues" ]
  /\ UNCHANGED << matVars, evalVars, called, numOwnedNodes, numElements, numDependentNodes,
                  meshInitializedFlag, elements, maxElementNodes,
                  maxElementSize, maxElementIndepNodes, elementNodeIndex,
                  elementTacsNodes, depNodes, bcMap, tacsExtNodeNums,
                  numExtNodes, numNodes, extNodeOffset, extDistIndices,
                  extDist, newNodeIndices, elementData, query, threadVars,
                  mat >>

\* an exchange that brings nothing from the other processes
ReceivedVecLocalOnly(p, n) == ResContribution(p, n, frame[p].stale, FALSE)

\* what reaches owned node n of p in beginSetValues/endSetValues: its own
\* dependent-node contributions and the contributions of the other
\* processes that passed a residual
ReceivedVec(p, n) ==
  ResContribution(p, n, frame[p].stale, FALSE)
    + SumSeq([ k \in 1 .. mpiSize |->
                 IF k - 1 = p \/ ~ frame[k - 1].withResidual THEN 0
                 ELSE ResContribution(k - 1, n, frame[k - 1].stale, TRUE)
                        + ResContribution(k - 1, n, frame[k - 1].stale, FALSE) ])

\* the entry of varsVec at node n: the state vector is zero from its
\* creation on, no call that sets the variables is made
StateValue(p, n) == 0

\* the value a boundary condition prescribes: addBCs is given no values,
\* which prescribes zero
Prescribed(p, n) == 0

\* the residual after beginSetValues/endSetValues
ReducedVec(p) ==
  [ i \in 1 .. numOwnedNodes[p] |->
      residual[p][i] + ReceivedVec(p, ownerRange[p] + i - 1) ]

\* applyBCs that constrains nothing
VecApplyNoBCs(p, vec) == vec

\* residual->applyBCs(varsVec): the constrained entries become the state
\* value less the prescribed value
VecApplyBCs(p, vec) ==
  [ i \in DOMAIN vec |->
      LET n == ownerRange[p] + i - 1
      IN IF HasBC(p, n) THEN StateValue(p, n) - Prescribed(p, n)
         ELSE vec[i] ]

\* the residual after the exchange and applyBCs
AssembledVec(p) == VecApplyBCs(p, ReducedVec(p))

\* the matrix after beginAssembly/endAssembly
ReducedMat(p) ==
  [ rc \in DOMAIN mat[p] |->
      mat[p][rc]
        + SumSeq([ k \in 1 .. mpiSize |->
                     IF k - 1 = p THEN 0
                     ELSE MatContribution(k - 1, rc[1], rc[2],
                                          frame[k - 1].stale) ]) ]

\* A->applyBCs(): a constrained row becomes the row of the identity
MatApplyBCs(p, m) ==
  [ rc \in DOMAIN m |->
      IF HasBC(p, rc[1]) THEN IF rc[1] = rc[2] THEN 1 ELSE 0
      ELSE m[rc] ]

\* the matrix after beginAssembly/endAssembly and applyBCs
AssembledMat(p) == MatApplyBCs(p, ReducedMat(p))

\* beginSetValues/endSetValues and applyBCs of assembleRes
assembleResSetValues ==
  /\ \A p \in Procs : pc[p] = "assembleRes:setValues"
  /\ residual' = [ p \in Procs |-> AssembledVec(p) ]
  /\ pc' = [ p \in Procs |-> "idle" ]
  /\ frame' = [ p \in Procs |-> NoFrame ]
  /\ UNCHANGED << matVars, evalVars, called, numOwnedNodes, numElements, numDependentNodes,
                  meshInitializedFlag, elements, maxElementNodes,
                  maxElementSize, maxElementIndepNodes, elementNodeIndex,
                  elementTacsNodes, depNodes, bcMap, tacsExtNodeNums,
                  numExtNodes, numNodes, extNodeOffset, extDistIndices,
                  extDist, newNodeIndices, elementData, query, threadVars,
                  mat >>

\* ---------------------------------------------------------------------
\* assembleJacobian
\* ---------------------------------------------------------------------
assembleJacobian(p, res, A) ==
  /\ Live(p)
  /\ numThreads[p] = 1
  /\ IF IsNull(A)
     THEN \* the residual is zeroed, then A->zeroEntries() through NULL
          /\ residual' = [ residual EXCEPT
                             ![p] = IF IsNull(res) THEN @ ELSE ZeroVec(p) ]
          /\ Crash(p)
          /\ UNCHANGED mat
     ELSE \/ /\ LoopNullDeref(p) \/ LoopUndefined(p)
             /\ residual' = [ residual EXCEPT
                                ![p] = IF IsNull(res) THEN @ ELSE ZeroVec(p) ]
             /\ mat' = [ mat EXCEPT ![p] = ZeroMat(p) ]
             /\ Crash(p)
          \/ /\ ~ LoopNullDeref(p)
             /\ \E g \in LoopGarbage(p) :
                  /\ residual' = [ residual EXCEPT
                                     ![p] = IF IsNull(res) THEN @
                                            ELSE LoopVec(p, g) ]
                  /\ mat' = [ mat EXCEPT ![p] = LoopMat(p, g) ]
                  /\ frame' = [ frame EXCEPT
                                  ![p] = [ NoFrame EXCEPT
                                             !.withResidual = ~ IsNull(res),
                                             !.stale = g ] ]
             /\ pc' = [ pc EXCEPT ![p] = "assembleJacobian:assembly" ]
  /\ UNCHANGED << matVars, evalVars, called, numOwnedNodes, numElements, numDependentNodes,
                  meshInitializedFlag, elements, maxElementNodes,
                  maxElementSize, maxElementIndepNodes, elementNodeIndex,
                  elementTacsNodes, depNodes, bcMap, tacsExtNodeNums,
                  numExtNodes, numNodes, extNodeOffset, extDistIndices,
                  extDist, newNodeIndices, elementData, query, threadVars >>

\* beginAssembly/endAssembly, beginSetValues/endSetValues and applyBCs of
\* assembleJacobian
assembleJacobianAssembly ==
  /\ \A p \in Procs : pc[p] = "assembleJacobian:assembly"
  /\ mat' = [ p \in Procs |-> AssembledMat(p) ]
  /\ residual' = [ p \in Procs |->
                     IF frame[p].withResidual THEN AssembledVec(p)
                     ELSE residual[p] ]
  /\ pc' = [ p \in Procs |-> "idle" ]
  /\ frame' = [ p \in Procs |-> NoFrame ]
  /\ UNCHANGED << matVars, evalVars, called, numOwnedNodes, numElements, numDependentNodes,
                  meshInitializedFlag, elements, maxElementNodes,
                  maxElementSize, maxElementIndepNodes, elementNodeIndex,
                  elementTacsNodes, depNodes, bcMap, tacsExtNodeNums,
                  numExtNodes, numNodes, extNodeOffset, extDistIndices,
                  extDist, newNodeIndices, elementData, query, threadVars >>

\* ---------------------------------------------------------------------
\* assembleMatType
\* ---------------------------------------------------------------------
assembleMatType(p, A) ==
  /\ Live(p)
  /\ numThreads[p] = 1
  /\ IF IsNull(A)
     THEN \* A->zeroEntries() through a NULL pointer
          /\ Crash(p)
          /\ UNCHANGED mat
     ELSE \/ /\ LoopNullDeref(p) \/ LoopUndefined(p)
             /\ mat' = [ mat EXCEPT ![p] = ZeroMat(p) ]
             /\ Crash(p)
          \/ /\ ~ LoopNullDeref(p)
             /\ \E g \in LoopGarbage(p) :
                  /\ mat' = [ mat EXCEPT ![p] = LoopMat(p, g) ]
                  /\ frame' = [ frame EXCEPT
                                  ![p] = [ NoFrame EXCEPT !.stale = g ] ]
             /\ pc' = [ pc EXCEPT ![p] = "assembleMatType:assembly" ]
  /\ UNCHANGED << matVars, evalVars, called, numOwnedNodes, numElements, numDependentNodes,
                  meshInitializedFlag, elements, maxElementNodes,
                  maxElementSize, maxElementIndepNodes, elementNodeIndex,
                  elementTacsNodes, depNodes, bcMap, tacsExtNodeNums,
                  numExtNodes, numNodes, extNodeOffset, extDistIndices,
                  extDist, newNodeIndices, elementData, query, threadVars,
                  residual >>

\* beginAssembly/endAssembly and applyBCs of assembleMatType
assembleMatTypeAssembly ==
  /\ \A p \in Procs : pc[p] = "assembleMatType:assembly"
  /\ mat' = [ p \in Procs |-> AssembledMat(p) ]
  /\ pc' = [ p \in Procs |-> "idle" ]
  /\ frame' = [ p \in Procs |-> NoFrame ]
  /\ UNCHANGED << matVars, evalVars, called, numOwnedNodes, numElements, numDependentNodes,
                  meshInitializedFlag, elements, maxElementNodes,
                  maxElementSize, maxElementIndepNodes, elementNodeIndex,
                  elementTacsNodes, depNodes, bcMap, tacsExtNodeNums,
                  numExtNodes, numNodes, extNodeOffset, extDistIndices,
                  extDist, newNodeIndices, elementData, query, threadVars,
                  residual >>

\* ---------------------------------------------------------------------
\* createMat, createFEMat
\* ---------------------------------------------------------------------
\* the global numbers of the local nodes 0 .. numNodes-1
GlobalIndices(p) ==
  [ i \in 1 .. numNodes[p] |-> getGlobalNodeNum(p, i - 1) ]

\* the rows the matrix constructors hand to the matrix: the full
\* node-to-node CSR with its diagonal
LocalPattern(p) == Ptr(computeLocalNodeToNodeCSR(p, 0))

createMat(p) ==
  /\ Live(p)
  /\ IF meshInitializedFlag[p] = 0
     THEN \* an error is printed, NULL is returned
          UNCHANGED << matVars, pc, frame >>
     ELSE /\ distMatIndices' =
               [ distMatIndices EXCEPT
                   ![p] = IF IsNull(@) THEN Ptr(GlobalIndices(p)) ELSE @ ]
          /\ IF CSRNullDeref(p) \/ CSRUndefined(p)
             THEN Crash(p) /\ UNCHANGED matPattern
             ELSE /\ matPattern' = [ matPattern EXCEPT ![p] = LocalPattern(p) ]
                  /\ UNCHANGED << pc, frame >>
          /\ UNCHANGED << feMatBIndices, feMatCIndices, feMatBMap, feMatCMap >>
  /\ UNCHANGED << evalVars, called, numOwnedNodes, numElements, numDependentNodes,
                  meshInitializedFlag, elements, maxElementNodes,
                  maxElementSize, maxElementIndepNodes, elementNodeIndex,
                  elementTacsNodes, depNodes, bcMap, tacsExtNodeNums,
                  numExtNodes, numNodes, extNodeOffset, extDistIndices,
                  extDist, newNodeIndices, elementData, query, threadVars,
                  residual, mat >>

\* NATURAL_ORDER is refused with a message and replaced
FEMatOrder(order_type) ==
  IF order_type = "NATURAL_ORDER" THEN "TACS_AMD_ORDER" ELSE order_type

\* createFEMat up to its call of computeCouplingNodes; a later call reuses
\* the stored ordering
createFEMat(p, order_type) ==
  /\ Live(p)
  /\ IF meshInitializedFlag[p] = 0
     THEN \* an error is printed, NULL is returned
          UNCHANGED << matVars, pc, frame >>
     ELSE IF ~ IsNull(feMatBMap[p])
          THEN /\ IF CSRNullDeref(p) \/ CSRUndefined(p)
                  THEN Crash(p) /\ UNCHANGED matPattern
                  ELSE /\ matPattern' =
                            [ matPattern EXCEPT ![p] = LocalPattern(p) ]
                       /\ UNCHANGED << pc, frame >>
               /\ UNCHANGED << distMatIndices, feMatBIndices, feMatCIndices,
                               feMatBMap, feMatCMap >>
          ELSE /\ pc' = [ pc EXCEPT ![p] = "createFEMat:coupling" ]
               /\ frame' = [ frame EXCEPT
                               ![p] = [ NoFrame EXCEPT
                                          !.order_type = FEMatOrder(order_type) ] ]
               /\ UNCHANGED matVars
  /\ UNCHANGED << evalVars, called, numOwnedNodes, numElements, numDependentNodes,
                  meshInitializedFlag, elements, maxElementNodes,
                  maxElementSize, maxElementIndepNodes, elementNodeIndex,
                  elementTacsNodes, depNodes, bcMap, tacsExtNodeNums,
                  numExtNodes, numNodes, extNodeOffset, extDistIndices,
                  extDist, newNodeIndices, elementData, query, threadVars,
                  residual, mat >>

\* amd_order_interface: a permutation of the n local nodes that orders the
\* given coupling nodes last
AmdOrderInterface(n, coupling) ==
  { perm \in Permutations0(n) :
      { perm[i] : i \in (n - Len(coupling) + 1) .. n } = Range(coupling) }

\* local_nodes: the local nodes that all_nodes leaves unmarked, in
\* increasing order
LocalNodesOf(p, coupling) ==
  SortSet((0 .. (numNodes[p] - 1)) \ Range(coupling))

\* a block whose entries are all taken from the head of the list
FEMatBlockFirstOnly(nodes, perm) == [ i \in 1 .. Len(perm) |-> At(nodes, 0) ]

\* perm_local_nodes[i] = local_nodes[perm_local_nodes[i]], and the same for
\* the coupling nodes
FEMatBlock(nodes, perm) == [ i \in 1 .. Len(perm) |-> At(nodes, perm[i]) ]

\* the two index sets createFEMat builds for the given ordering type
FEMatBlocks(p, order_type, coupling) ==
  LET n == numNodes[p]
      nlocal == n - Len(coupling)
  IN IF order_type = "TACS_AMD_ORDER"
     THEN { [ B |-> SubSeq(perm, 1, nlocal), C |-> SubSeq(perm, nlocal + 1, n) ]
            : perm \in AmdOrderInterface(n, coupling) }
     ELSE { [ B |-> FEMatBlock(LocalNodesOf(p, coupling), permB),
              C |-> FEMatBlock(coupling, permC) ]
            : permB \in computeMatReordering(order_type, nlocal),
              permC \in computeMatReordering(order_type, Len(coupling)) }

\* the rest of the first createFEMat call
createFEMatOrder(p) ==
  /\ Inside(p, "createFEMat:order")
  /\ IF CSRNullDeref(p) \/ CSRUndefined(p)
     THEN Crash(p) /\ UNCHANGED matVars
     ELSE /\ \E blocks \in FEMatBlocks(p, frame[p].order_type,
                                       frame[p].couplingNodes) :
               /\ feMatBIndices' = [ feMatBIndices EXCEPT ![p] = Ptr(blocks.B) ]
               /\ feMatCIndices' = [ feMatCIndices EXCEPT ![p] = Ptr(blocks.C) ]
               /\ feMatBMap' =
                    [ feMatBMap EXCEPT
                        ![p] = Ptr([ i \in 1 .. Len(blocks.B) |->
                                       getGlobalNodeNum(p, blocks.B[i]) ]) ]
               /\ feMatCMap' =
                    [ feMatCMap EXCEPT
                        ![p] = Ptr([ i \in 1 .. Len(blocks.C) |->
                                       getGlobalNodeNum(p, blocks.C[i]) ]) ]
          /\ matPattern' = [ matPattern EXCEPT ![p] = LocalPattern(p) ]
          /\ pc' = [ pc EXCEPT ![p] = "idle" ]
          /\ frame' = [ frame EXCEPT ![p] = NoFrame ]
          /\ UNCHANGED distMatIndices
  /\ UNCHANGED << evalVars, called, numOwnedNodes, numElements, numDependentNodes,
                  meshInitializedFlag, elements, maxElementNodes,
                  maxElementSize, maxElementIndepNodes, elementNodeIndex,
                  elementTacsNodes, depNodes, bcMap, tacsExtNodeNums,
                  numExtNodes, numNodes, extNodeOffset, extDistIndices,
                  extDist, newNodeIndices, elementData, query, threadVars,
                  residual, mat >>

\* ---------------------------------------------------------------------
\* The threaded element loop
\* ---------------------------------------------------------------------
setNumThreads(p, t) ==
  /\ Live(p)
  /\ numThreads' = [ numThreads EXCEPT ![p] = t ]
  /\ UNCHANGED << matVars, evalVars, called, numOwnedNodes, numElements, numDependentNodes,
                  meshInitializedFlag, elements, maxElementNodes,
                  maxElementSize, maxElementIndepNodes, elementNodeIndex,
                  elementTacsNodes, depNodes, bcMap, tacsExtNodeNums,
                  numExtNodes, numNodes, extNodeOffset, extDistIndices,
                  extDist, newNodeIndices, elementData, pc, frame, query,
                  numCompletedElements, tacsPInfo, tacs_mutex, threads,
                  merged, residual, mat >>

AssemblyKinds == { "assembleRes", "assembleJacobian", "assembleMatType" }

\* the position of a process whose worker threads run the element loop
LoopPoint(kind) == kind \o ":loop"

InLoop(p) == Running /\ pc[p] \in { LoopPoint(kind) : kind \in AssemblyKinds }

\* the collective operation that follows the element loop of each call
ReducePoint(point) ==
  IF point = LoopPoint("assembleRes") THEN "assembleRes:setValues"
  ELSE IF point = LoopPoint("assembleJacobian")
       THEN "assembleJacobian:assembly"
       ELSE "assembleMatType:assembly"

\* the fields of tacsPInfo each call sets before it creates its threads
PInfoSet(p, kind, res, A) ==
  IF kind = "assembleRes"
  THEN [ tacsPInfo[p] EXCEPT !.tacs = Ptr(p) ]
  ELSE IF kind = "assembleJacobian"
       THEN [ tacsPInfo[p] EXCEPT !.tacs = Ptr(p), !.res = res, !.mat = A ]
       ELSE [ tacsPInfo[p] EXCEPT !.tacs = Ptr(p), !.mat = A ]

\* a call that zeroes no matrix
ZeroesNoMat(kind) == FALSE

\* the accumulators a call zeroes
ZeroesResidual(kind, res) ==
  kind = "assembleRes" \/ (kind = "assembleJacobian" /\ ~ IsNull(res))

ZeroesMat(kind) == kind # "assembleRes"

\* the call of assembleRes, assembleJacobian or assembleMatType with more
\* than one thread, up to the creation of the worker threads
assembleThreaded(p, kind, res, A) ==
  /\ Live(p)
  /\ numThreads[p] > 1
  /\ residual' = [ residual EXCEPT
                     ![p] = IF ZeroesResidual(kind, res) THEN ZeroVec(p)
                            ELSE @ ]
  /\ mat' = [ mat EXCEPT ![p] = IF ZeroesMat(kind) THEN ZeroMat(p) ELSE @ ]
  /\ numCompletedElements' = [ numCompletedElements EXCEPT ![p] = 0 ]
  /\ tacsPInfo' = [ tacsPInfo EXCEPT ![p] = PInfoSet(p, kind, res, A) ]
  /\ threads' =
       [ threads EXCEPT
           ![p] = [ k \in ThreadIds |->
                      IF k < numThreads[p]
                      THEN [ at |-> "start", elem |-> -1 ] ELSE NoThread ] ]
  /\ merged' = [ merged EXCEPT ![p] = [ e \in DOMAIN @ |-> 0 ] ]
  /\ \E g \in LoopGarbage(p) :
       frame' = [ frame EXCEPT
                    ![p] = [ NoFrame EXCEPT
                               !.withResidual = ZeroesResidual(kind, res),
                               !.stale = g ] ]
  /\ pc' = [ pc EXCEPT ![p] = LoopPoint(kind) ]
  /\ UNCHANGED << matVars, evalVars, called, numOwnedNodes, numElements, numDependentNodes,
                  meshInitializedFlag, elements, maxElementNodes,
                  maxElementSize, maxElementIndepNodes, elementNodeIndex,
                  elementTacsNodes, depNodes, bcMap, tacsExtNodeNums,
                  numExtNodes, numNodes, extNodeOffset, extDistIndices,
                  extDist, newNodeIndices, elementData, query, numThreads,
                  tacs_mutex >>

\* what the steps of a worker thread leave alone
WorkerFrame ==
  UNCHANGED << matVars, evalVars, called, numOwnedNodes, numElements, numDependentNodes,
               meshInitializedFlag, elements, maxElementNodes,
               maxElementSize, maxElementIndepNodes, elementNodeIndex,
               elementTacsNodes, depNodes, bcMap, tacsExtNodeNums,
               numExtNodes, numNodes, extNodeOffset, extDistIndices,
               extDist, newNodeIndices, elementData, query, numThreads,
               tacsPInfo >>

ThreadAt(p, k, point) == InLoop(p) /\ threads[p][k].at = point

MoveThread(p, k, point, e) ==
  threads' = [ threads EXCEPT ![p][k] = [ at |-> point, elem |-> e ] ]

\* a worker takes the mutex to claim an element
lockCursor(p, k) ==
  /\ ThreadAt(p, k, "start")
  /\ tacs_mutex[p] = Free
  /\ tacs_mutex' = [ tacs_mutex EXCEPT ![p] = k ]
  /\ MoveThread(p, k, "claim", -1)
  /\ WorkerFrame
  /\ UNCHANGED << pc, frame, numCompletedElements, merged, residual, mat >>

\* a cursor that stays where it is
KeepCursor(c) == c

\* the cursor after an element index was handed out
AdvanceCursor(c) == c + 1

\* under the mutex it takes the next unassigned element index, if there is
\* one, and releases the mutex
claimElement(p, k) ==
  /\ ThreadAt(p, k, "claim")
  /\ tacs_mutex[p] = k
  /\ IF numCompletedElements[p] < numElements[p]
     THEN /\ MoveThread(p, k, "compute", numCompletedElements[p])
          /\ numCompletedElements' =
               [ numCompletedElements EXCEPT ![p] = AdvanceCursor(@) ]
     ELSE /\ MoveThread(p, k, "exit", -1)
          /\ UNCHANGED numCompletedElements
  /\ tacs_mutex' = [ tacs_mutex EXCEPT ![p] = Free ]
  /\ WorkerFrame
  /\ UNCHANGED << pc, frame, merged, residual, mat >>

\* it computes the contribution of its element without the mutex, then
\* takes the mutex to merge it
lockMerge(p, k) ==
  /\ ThreadAt(p, k, "compute")
  /\ IF LoopNullDeref(p)
     THEN /\ Crash(p)
          /\ UNCHANGED << tacs_mutex, threads >>
     ELSE /\ tacs_mutex[p] = Free
          /\ tacs_mutex' = [ tacs_mutex EXCEPT ![p] = k ]
          /\ MoveThread(p, k, "merge", threads[p][k].elem)
          /\ UNCHANGED << pc, frame >>
  /\ WorkerFrame
  /\ UNCHANGED << numCompletedElements, merged, residual, mat >>

\* the contribution of element e (0-based) to the owned entries of the
\* residual
ElementVec(p, e, g) ==
  [ i \in 1 .. numOwnedNodes[p] |->
      SumSeq([ k \in 1 .. Len(ElementRun(p, e)) |->
                 IF ElementRun(p, e)[k] >= 0
                 THEN NodeWeight(p, ElementRun(p, e)[k], ownerRange[p] + i - 1)
                        * ElemEntry(p, e, k, g)
                 ELSE 0 ]) ]

\* the contribution of element e to the owned rows of the matrix
ElementMat(p, e, g) ==
  [ rc \in DOMAIN mat[p] |->
      SumSeq([ k \in 1 .. Len(ElementRun(p, e)) |->
        SumSeq([ l \in 1 .. Len(ElementRun(p, e)) |->
                   NodeWeight(p, ElementRun(p, e)[k], rc[1])
                     * NodeWeight(p, ElementRun(p, e)[l], rc[2])
                     * ElemEntry(p, e, k, g) * ElemEntry(p, e, l, g) ]) ]) ]

\* the accumulators the workers of each call add to
AddsToResidual(p) ==
  pc[p] \in { LoopPoint("assembleRes"), LoopPoint("assembleJacobian") }

AddsToMat(p) ==
  pc[p] \in { LoopPoint("assembleJacobian"), LoopPoint("assembleMatType") }

\* the worker adds through a NULL pointer of its argument block; the
\* worker of assembleJacobian skips a residual that is NULL
MergeNullDeref(p) ==
  \/ pc[p] = LoopPoint("assembleRes") /\ IsNull(tacsPInfo[p].res)
  \/ AddsToMat(p) /\ IsNull(tacsPInfo[p].mat)

\* under the mutex it adds the contribution to the accumulators its
\* argument block names, and releases the mutex
mergeElement(p, k) ==
  /\ ThreadAt(p, k, "merge")
  /\ tacs_mutex[p] = k
  /\ IF MergeNullDeref(p)
     THEN /\ Crash(p)
          /\ UNCHANGED << tacs_mutex, threads, merged, residual, mat >>
     ELSE LET e == threads[p][k].elem
          IN /\ residual' =
                  [ residual EXCEPT
                      ![p] = IF AddsToResidual(p) /\ ~ IsNull(tacsPInfo[p].res)
                             THEN [ i \in DOMAIN @ |->
                                      @[i] + ElementVec(p, e, frame[p].stale)[i] ]
                             ELSE @ ]
             /\ mat' =
                  [ mat EXCEPT
                      ![p] = IF AddsToMat(p)
                             THEN [ rc \in DOMAIN @ |->
                                      @[rc] + ElementMat(p, e, frame[p].stale)[rc] ]
                             ELSE @ ]
             /\ merged' = [ merged EXCEPT ![p][e] = @ + 1 ]
             /\ tacs_mutex' = [ tacs_mutex EXCEPT ![p] = Free ]
             /\ MoveThread(p, k, "start", -1)
             /\ UNCHANGED << pc, frame >>
  /\ WorkerFrame
  /\ UNCHANGED numCompletedElements

\* every worker has left its loop
AllExited(p) ==
  \A k \in ThreadIds : k < numThreads[p] => threads[p][k].at = "exit"

\* pthread_join of every worker; the call goes on to its collective
\* operation
joinThreads(p) ==
  /\ InLoop(p)
  /\ AllExited(p)
  /\ threads' = [ threads EXCEPT ![p] = NoThreads ]
  /\ pc' = [ pc EXCEPT ![p] = ReducePoint(pc[p]) ]
  /\ WorkerFrame
  /\ UNCHANGED << frame, tacs_mutex, numCompletedElements, merged,
                  residual, mat >>

\* ---------------------------------------------------------------------
\* Design variable bounds, auxiliary elements, functions and adjoint
\* products
\* ---------------------------------------------------------------------
\* the variables the calls of this section leave alone
meshVars ==
  << matVars, called, numOwnedNodes, numElements, numDependentNodes,
     meshInitializedFlag, elements, maxElementNodes, maxElementSize,
     maxElementIndepNodes, elementNodeIndex, elementTacsNodes, depNodes,
     bcMap, tacsExtNodeNums, numExtNodes, numNodes, extNodeOffset,
     extDistIndices, extDist, newNodeIndices, elementData, query,
     threadVars, residual, mat >>

Min2(a, b) == IF a < b THEN a ELSE b

\* the bounds an element reports when it has not been given others
DefaultRange == [ lb |-> 0, ub |-> 1 ]

\* the sums the callers hand in: no term yet
NoTerms == << >>

\* TACSElement::getDesignVarRange, once for each of the n elements of the
\* process: the lower bound is raised and the upper bound lowered to the
\* element's own
RECURSIVE ElementsDesignVarRange(_, _, _)
ElementsDesignVarRange(range, n, r) ==
  IF n = 0 THEN r
  ELSE ElementsDesignVarRange(range, n - 1,
                              [ lb |-> Max2(r.lb, range.lb),
                                ub |-> Min2(r.ub, range.ub) ])

\* TACSAuxElements::getDesignVarRange: the same for every auxiliary element
RECURSIVE AuxDesignVarRange(_, _)
AuxDesignVarRange(aux, r) ==
  IF aux = << >> THEN r
  ELSE AuxDesignVarRange(Tail(aux),
                         [ lb |-> Max2(r.lb, Head(aux).range.lb),
                           ub |-> Min2(r.ub, Head(aux).range.ub) ])

\* the bounds a process finds among its own elements
LocalDesignVarRange(p, r) ==
  LET e == ElementsDesignVarRange(elementRange[p], numElements[p], r)
  IN IF IsNull(auxElements[p]) THEN e
     ELSE AuxDesignVarRange(Deref(auxElements[p]), e)

\* the bounds after a reduction over the processes: the largest lower and
\* the smallest upper bound
RECURSIVE ReducedDesignVarRange(_, _)
ReducedDesignVarRange(n, r) ==
  IF n = 0 THEN r
  ELSE ReducedDesignVarRange(n - 1, LocalDesignVarRange(n - 1, r))

\* getDesignVarRange(lb, ub, 1) with the caller's arrays holding lb0, ub0
getDesignVarRange(p, lb0, ub0) ==
  /\ Live(p)
  /\ IF numElements[p] > 0 /\ IsNull(elements[p])
     THEN Crash(p) /\ UNCHANGED << lb, ub >>
     ELSE LET r == LocalDesignVarRange(p, [ lb |-> lb0, ub |-> ub0 ])
          IN /\ lb' = [ lb EXCEPT ![p] = Ptr(<< r.lb >>) ]
             /\ ub' = [ ub EXCEPT ![p] = Ptr(<< r.ub >>) ]
             /\ UNCHANGED << pc, frame >>
  /\ UNCHANGED << elementRange, auxElements, functionValue, funcVals, fdvSens,
                  fXptSens, adjXptSens >>
  /\ UNCHANGED meshVars

\* an auxiliary element: the element it is attached to and its identity
AuxElem(num, elem) == [ num |-> num, elem |-> elem, range |-> DefaultRange ]

\* setAuxElements(_aux_elems)
setAuxElements(p, aux) ==
  /\ Live(p)
  /\ auxElements' = [ auxElements EXCEPT ![p] = aux ]
  /\ IF ~ IsNull(aux) /\ Deref(aux) # << >> /\ IsNull(elements[p])
     THEN Crash(p)
     ELSE UNCHANGED << pc, frame >>
  /\ UNCHANGED << elementRange, lb, ub, functionValue, funcVals, fdvSens,
                  fXptSens, adjXptSens >>
  /\ UNCHANGED meshVars

\* TACSAuxElements::sort: by element number
SortAux(aux, n) ==
  Flatten([ i \in 1 .. n |-> SelectSeq(aux, LAMBDA r : r.num = i - 1) ])

\* the auxiliary elements after the sort the evaluation calls start with
SortedAux(p) ==
  IF IsNull(auxElements[p]) THEN NULL
  ELSE Ptr(SortAux(Deref(auxElements[p]), numElements[p]))

\* the terms of the sums the calls accumulate
ElementTerm(i) == << "element", i >>

AuxTerm(a) == << "aux", a >>

\* the work of one function or adjoint over all the elements
AllElementTerms(p) == [ i \in 1 .. numElements[p] |-> ElementTerm(i - 1) ]

\* the arrays a caller hands in: n sums without a term
ZeroSums(n) == [ k \in 1 .. n |-> NoTerms ]

\* a sequential element loop reads elementNodeIndex and the scratch storage
LoopFaults(p) ==
  numElements[p] > 0 /\ (meshInitializedFlag[p] = 0 \/ IsNull(elements[p]))

\* evalFunctions(functions, numFuncs, funcVals), every function over the
\* entire domain and with one iteration; functionValue is what getValue()
\* returns
evalFunctions(p, numFuncs) ==
  /\ Live(p)
  /\ IF numThreads[p] > 1
     THEN /\ funcVals' =
               [ funcVals EXCEPT
                   ![p] = Ptr(SubSeq(functionValue[p], 1, numFuncs)) ]
          /\ UNCHANGED << functionValue, pc, frame >>
     ELSE IF LoopFaults(p)
          THEN Crash(p) /\ UNCHANGED << functionValue, funcVals >>
          ELSE /\ functionValue' =
                    [ functionValue EXCEPT
                        ![p] = [ k \in 1 .. MaxFuncs |->
                                   IF k <= numFuncs THEN AllElementTerms(p)
                                   ELSE @[k] ] ]
               /\ funcVals' =
                    [ funcVals EXCEPT
                        ![p] = Ptr([ k \in 1 .. numFuncs |-> AllElementTerms(p) ]) ]
               /\ UNCHANGED << pc, frame >>
  /\ UNCHANGED << elementRange, auxElements, lb, ub, fdvSens, fXptSens,
                  adjXptSens >>
  /\ UNCHANGED meshVars

\* addDVSens(funcs, numFuncs, fdvSens, numDVs) on zeroed arrays
addDVSens(p, numFuncs) ==
  /\ Live(p)
  /\ IF numThreads[p] > 1
     THEN /\ fdvSens' = [ fdvSens EXCEPT ![p] = Ptr(ZeroSums(numFuncs)) ]
          /\ UNCHANGED << pc, frame >>
     ELSE IF LoopFaults(p)
          THEN Crash(p) /\ UNCHANGED fdvSens
          ELSE /\ fdvSens' =
                    [ fdvSens EXCEPT
                        ![p] = Ptr([ k \in 1 .. numFuncs |->
                                       ZeroSums(numFuncs)[k] \o AllElementTerms(p) ]) ]
               /\ UNCHANGED << pc, frame >>
  /\ UNCHANGED << elementRange, auxElements, lb, ub, functionValue, funcVals,
                  fXptSens, adjXptSens >>
  /\ UNCHANGED meshVars

\* addXptSens(funcs, numFuncs, fXptSens) on zeroed vectors
addXptSens(p, numFuncs) ==
  /\ Live(p)
  /\ IF numThreads[p] > 1
     THEN /\ fXptSens' = [ fXptSens EXCEPT ![p] = Ptr(ZeroSums(numFuncs)) ]
          /\ UNCHANGED << pc, frame >>
     ELSE IF LoopFaults(p)
          THEN Crash(p) /\ UNCHANGED fXptSens
          ELSE /\ fXptSens' =
                    [ fXptSens EXCEPT
                        ![p] = Ptr([ k \in 1 .. numFuncs |->
                                       ZeroSums(numFuncs)[k] \o AllElementTerms(p) ]) ]
               /\ UNCHANGED << pc, frame >>
  /\ UNCHANGED << elementRange, auxElements, lb, ub, functionValue, funcVals,
                  fdvSens, adjXptSens >>
  /\ UNCHANGED meshVars

\* while (aux_count < naux && aux[aux_count].num == i): the number of
\* auxiliary elements the loop takes
RECURSIVE AuxRunLen(_, _, _)
AuxRunLen(aux, aux_count, i) ==
  IF aux_count < Len(aux) /\ At(aux, aux_count).num = i
  THEN 1 + AuxRunLen(aux, aux_count + 1, i)
  ELSE 0

\* the loop over the adjoints k for element i: the element's product, then
\* the products of the auxiliary elements the while loop takes
RECURSIVE AdjointLoop(_, _, _, _, _)
AdjointLoop(aux, i, k, numAdjoints, st) ==
  IF k >= numAdjoints THEN st
  ELSE LET run == AuxRunLen(aux, st.aux_count, i)
           terms == << ElementTerm(i) >>
                      \o [ j \in 1 .. run |->
                             AuxTerm(At(aux, st.aux_count + j - 1).elem) ]
       IN AdjointLoop(aux, i, k + 1, numAdjoints,
                      [ aux_count |-> st.aux_count + run,
                        sums |-> [ st.sums EXCEPT ![k + 1] = @ \o terms ] ])

\* the loop over the elements i
RECURSIVE AdjointElementLoop(_, _, _, _, _)
AdjointElementLoop(aux, i, n, numAdjoints, st) ==
  IF i >= n THEN st
  ELSE AdjointElementLoop(aux, i + 1, n, numAdjoints,
                          AdjointLoop(aux, i, 0, numAdjoints, st))

\* the sums of the sequential branch of the two adjoint product calls
AdjointProducts(p, numAdjoints) ==
  LET aux == IF IsNull(auxElements[p]) THEN << >> ELSE Deref(SortedAux(p))
  IN AdjointElementLoop(aux, 0, numElements[p], numAdjoints,
                        [ aux_count |-> 0, sums |-> ZeroSums(numAdjoints) ]).sums

\* addAdjointResProducts(adjoint, numAdjoints, fdvSens, numDVs) on zeroed
\* arrays
addAdjointResProducts(p, numAdjoints) ==
  /\ Live(p)
  /\ auxElements' = [ auxElements EXCEPT ![p] = SortedAux(p) ]
  /\ IF numThreads[p] > 1
     THEN /\ fdvSens' = [ fdvSens EXCEPT ![p] = Ptr(ZeroSums(numAdjoints)) ]
          /\ UNCHANGED << pc, frame >>
     ELSE IF LoopFaults(p)
          THEN Crash(p) /\ UNCHANGED fdvSens
          ELSE /\ fdvSens' =
                    [ fdvSens EXCEPT ![p] = Ptr(AdjointProducts(p, numAdjoints)) ]
               /\ UNCHANGED << pc, frame >>
  /\ UNCHANGED << elementRange, lb, ub, functionValue, funcVals, fXptSens,
                  adjXptSens >>
  /\ UNCHANGED meshVars

\* addAdjointResXptSensProducts(adjoint, numAdjoints, adjXptSens) on zeroed
\* vectors
addAdjointResXptSensProducts(p, numAdjoints) ==
  /\ Live(p)
  /\ auxElements' = [ auxElements EXCEPT ![p] = SortedAux(p) ]
  /\ IF numThreads[p] > 1
     THEN /\ adjXptSens' =
               [ adjXptSens EXCEPT ![p] = Ptr(ZeroSums(numAdjoints)) ]
          /\ UNCHANGED << pc, frame >>
     ELSE IF LoopFaults(p)
          THEN Crash(p) /\ UNCHANGED adjXptSens
          ELSE /\ adjXptSens' =
                    [ adjXptSens EXCEPT
                        ![p] = Ptr(AdjointProducts(p, numAdjoints)) ]
               /\ UNCHANGED << pc, frame >>
  /\ UNCHANGED << elementRange, lb, ub, functionValue, funcVals, fdvSens,
                  fXptSens >>
  /\ UNCHANGED meshVars

\* ---------------------------------------------------------------------
\* The state after the constructors have run
\* ---------------------------------------------------------------------
ConstructedWith(owned, nelems, ndep, ranges) ==
  /\ called = [ p \in Procs |-> 0 ]
  /\ elementRange = ranges
  /\ auxElements = [ p \in Procs |-> NULL ]
  /\ lb = [ p \in Procs |-> NULL ]
  /\ ub = [ p \in Procs |-> NULL ]
  /\ functionValue = [ p \in Procs |-> [ k \in 1 .. MaxFuncs |-> NoTerms ] ]
  /\ funcVals = [ p \in Procs |-> NULL ]
  /\ fdvSens = [ p \in Procs |-> NULL ]
  /\ fXptSens = [ p \in Procs |-> NULL ]
  /\ adjXptSens = [ p \in Procs |-> NULL ]
  /\ numOwnedNodes = owned
  /\ numElements = nelems
  /\ numDependentNodes = ndep
  /\ meshInitializedFlag = [ p \in Procs |-> 0 ]
  /\ elements = [ p \in Procs |-> NULL ]
  /\ maxElementNodes = [ p \in Procs |-> 0 ]
  /\ maxElementSize = [ p \in Procs |-> 0 ]
  /\ maxElementIndepNodes = [ p \in Procs |-> 0 ]
  /\ elementNodeIndex = [ p \in Procs |-> NULL ]
  /\ elementTacsNodes = [ p \in Procs |-> NULL ]
  /\ depNodes = [ p \in Procs |-> NULL ]
  /\ bcMap = [ p \in Procs |-> << >> ]
  /\ tacsExtNodeNums = [ p \in Procs |-> NULL ]
  /\ numExtNodes = [ p \in Procs |-> 0 ]
  /\ numNodes = [ p \in Procs |-> 0 ]
  /\ extNodeOffset = [ p \in Procs |-> 0 ]
  /\ extDistIndices = [ p \in Procs |-> NULL ]
  /\ extDist = [ p \in Procs |-> NULL ]
  /\ newNodeIndices = [ p \in Procs |-> NULL ]
  /\ elementData = [ p \in Procs |-> NULL ]
  /\ pc = [ p \in Procs |-> "idle" ]
  /\ frame = [ p \in Procs |-> NoFrame ]
  /\ query = << >>
  /\ numThreads = [ p \in Procs |-> 1 ]
  /\ numCompletedElements = [ p \in Procs |-> 0 ]
  /\ tacsPInfo = [ p \in Procs |-> NoPInfo ]
  /\ tacs_mutex = [ p \in Procs |-> Free ]
  /\ threads = [ p \in Procs |-> NoThreads ]
  /\ merged = [ p \in Procs |-> [ e \in 0 .. (nelems[p] - 1) |-> 0 ] ]
  /\ distMatIndices = [ p \in Procs |-> NULL ]
  /\ matPattern = [ p \in Procs |-> NULL ]
  /\ feMatBIndices = [ p \in Procs |-> NULL ]
  /\ feMatCIndices = [ p \in Procs |-> NULL ]
  /\ feMatBMap = [ p \in Procs |-> NULL ]
  /\ feMatCMap = [ p \in Procs |-> NULL ]
  \* the accumulators hold the caller's data until an assembly zeroes them
  /\ residual = [ p \in Procs |-> [ i \in 1 .. owned[p] |-> 1 ] ]
  /\ mat = [ p \in Procs |->
              [ rc \in (OwnerRangeOf(owned)[p] .. (OwnerRangeOf(owned)[p + 1] - 1))
                         \X (0 .. (OwnerRangeOf(owned)[mpiSize] - 1)) |-> 1 ] ]

Constructed(owned, nelems, ndep) ==
  ConstructedWith(owned, nelems, ndep, [ p \in Procs |-> DefaultRange ])

Init ==
  Constructed([ p \in Procs |-> OwnedPerProc ],
              [ p \in Procs |-> ElemsPerProc ],
              [ p \in Procs |-> IF p \in FaultyRanks THEN DepsPerProc ELSE 0 ])

SetElementConnectivity ==
  \E p \in Procs : \E c \in ConnInputs(p) :
    setElementConnectivity(p, c.conn, c.ptr)

SetElements == \E p \in Procs : \E es \in ElementInputs(p) : setElements(p, es)

SetDependentNodes ==
  \E p \in Procs : \E tbl \in DepInputs(p) : setDependentNodes(p, tbl)

AddBCs ==
  \E p \in Procs : \E nodes \in BCNodeInputs(p) : \E bvars \in BCVarInputs :
    addBCs(p, nodes, IF IsNull(bvars) THEN -1 ELSE Len(Deref(bvars)), bvars)

ComputeReordering ==
  \E p \in Procs : \E order_type \in OrderingInputs :
    \E mat_type \in MatrixOrderingInputs :
      computeReordering(p, order_type, mat_type) /\ UNCHANGED called

ComputeReorderingOrder == \E p \in Procs : computeReorderingOrder(p)

ComputeReorderingRewrite == \E p \in Procs : computeReorderingRewrite(p)

Initialize == \E p \in Procs : initialize(p) /\ UNCHANGED called

InitializeFinish == \E p \in Procs : initializeFinish(p)

AssembleRes ==
  \E p \in AssemblyCallers : \E res \in VecInputs(p) : assembleRes(p, res)

AssembleJacobian ==
  \E p \in AssemblyCallers : \E res \in VecInputs(p) : \E A \in MatInputs(p) :
    assembleJacobian(p, res, A)

AssembleMatType ==
  \E p \in AssemblyCallers : \E A \in MatInputs(p) : assembleMatType(p, A)

\* the life cycle of the assemblers: setup, reordering, initialization
Next ==
  \/ SetElementConnectivity
  \/ SetElements
  \/ SetDependentNodes
  \/ AddBCs
  \/ ComputeReordering
  \/ computeCouplingNodes
  \/ ComputeReorderingOrder
  \/ computeReorderingExchange
  \/ ComputeReorderingRewrite
  \/ Initialize
  \/ scatterExternalBCs
  \/ InitializeFinish

Spec == Init /\ [][Next]_vars

\* ---------------------------------------------------------------------
\* Assembly: callers that set the mesh up with well-formed inputs and
\* assemble, before or after initialize()
\* ---------------------------------------------------------------------
SetupConnectivity ==
  \E p \in Procs : \E c \in WellFormedConn(p) :
    setElementConnectivity(p, c.conn, c.ptr)

SetupElements ==
  \E p \in Procs : \E es \in WellFormedElements(p) : setElements(p, es)

SetupDependentNodes ==
  \E p \in Procs : \E tbl \in WellFormedDeps(p) : setDependentNodes(p, tbl)

SetupBCs ==
  \E p \in Procs : addBCs(p, << FirstOwned(p) >>, -1, NULL)

NextAssemble ==
  \/ SetupConnectivity
  \/ SetupElements
  \/ SetupDependentNodes
  \/ SetupBCs
  \/ Initialize
  \/ computeCouplingNodes
  \/ scatterExternalBCs
  \/ InitializeFinish
  \/ AssembleRes
  \/ assembleResSetValues
  \/ AssembleJacobian
  \/ assembleJacobianAssembly
  \/ AssembleMatType
  \/ assembleMatTypeAssembly

SpecAssemble == Init /\ [][NextAssemble]_vars

\* ---------------------------------------------------------------------
\* The ownership map for any vector of owned-node counts
\* ---------------------------------------------------------------------
OwnedCounts == [ Procs -> 0 .. MaxOwnedCount ]

InitOwner ==
  \E owned \in OwnedCounts :
    Constructed(owned, [ p \in Procs |-> ElemsPerProc ], [ p \in Procs |-> 0 ])

\* a caller asks which process owns global node g
OwnerQuery ==
  /\ \E g \in -1 .. ownerRange[mpiSize] :
       query' = << g, getOwner(ownerRange, g) >>
  /\ UNCHANGED << matVars, evalVars, called, numOwnedNodes, numElements, numDependentNodes,
                  meshInitializedFlag, elements, maxElementNodes,
                  maxElementSize, maxElementIndepNodes, elementNodeIndex,
                  elementTacsNodes, depNodes, bcMap, tacsExtNodeNums,
                  numExtNodes, numNodes, extNodeOffset, extDistIndices,
                  extDist, newNodeIndices, elementData, pc, frame,
                  threadVars, residual, mat >>

SpecOwner == InitOwner /\ [][OwnerQuery]_vars

\* ---------------------------------------------------------------------
\* Reordering: callers that set the mesh up with well-formed inputs, reorder
\* with any ordering type and matrix type before initialize(), and
\* initialize
\* ---------------------------------------------------------------------
\* the processes whose caller may start a reordering: a caller that follows
\* the life cycle reorders before it initializes
ReorderingCallers == { p \in Procs : meshInitializedFlag[p] = 0 }

\* the arguments of a collective call are the same on every process: a
\* process that enters the call passes what those already inside it passed
SameArguments(order_type, mat_type) ==
  \A q \in Procs :
    pc[q] = "computeReordering:coupling" =>
      frame[q].order_type = order_type /\ frame[q].mat_type = mat_type

ReorderAnyType ==
  \E p \in ReorderingCallers : \E order_type \in OrderingTypes :
    \E mat_type \in MatrixOrderingTypes :
      /\ SameArguments(order_type, mat_type)
      /\ computeReordering(p, order_type, mat_type)
      /\ UNCHANGED called

NextReorder ==
  \/ SetupConnectivity
  \/ SetupElements
  \/ SetupDependentNodes
  \/ SetupBCs
  \/ ReorderAnyType
  \/ computeCouplingNodes
  \/ ComputeReorderingOrder
  \/ computeReorderingExchange
  \/ ComputeReorderingRewrite
  \/ Initialize
  \/ scatterExternalBCs
  \/ InitializeFinish

SpecReorder == Init /\ [][NextReorder]_vars

\* ---------------------------------------------------------------------
\* Threaded assembly: callers that set the mesh up with well-formed inputs,
\* initialize, choose a number of threads and assemble
\* ---------------------------------------------------------------------
InitThreads ==
  Constructed([ p \in Procs |-> OwnedPerProc ],
              [ p \in Procs |-> ThreadedElems ],
              [ p \in Procs |-> IF p \in FaultyRanks THEN DepsPerProc ELSE 0 ])

\* the ranks whose caller may ask for worker threads; the other ranks run
\* the sequential element loop
ThreadedRanks == { 0 }

\* the thread count is set once, before the mesh is initialized
SetNumThreads ==
  \E p \in ThreadedRanks : \E t \in 1 .. MaxThreads :
    meshInitializedFlag[p] = 0 /\ setNumThreads(p, t)

\* the calls of an initialized assembler that runs the sequential loop
AssembleSequential ==
  \E p \in Procs :
    /\ meshInitializedFlag[p] = 1
    /\ \/ assembleRes(p, Ptr("residual"))
       \/ \E res \in { NULL, Ptr("residual") } :
            assembleJacobian(p, res, Ptr("A"))
       \/ assembleMatType(p, Ptr("A"))

\* the calls of an initialized assembler that runs worker threads
AssembleThreaded ==
  \E p \in Procs :
    /\ meshInitializedFlag[p] = 1
    /\ \/ assembleThreaded(p, "assembleRes", Ptr("residual"), NULL)
       \/ \E res \in { NULL, Ptr("residual") } :
            assembleThreaded(p, "assembleJacobian", res, Ptr("A"))
       \/ assembleThreaded(p, "assembleMatType", NULL, Ptr("A"))

LockCursor == \E p \in Procs : \E k \in ThreadIds : lockCursor(p, k)

ClaimElement == \E p \in Procs : \E k \in ThreadIds : claimElement(p, k)

LockMerge == \E p \in Procs : \E k \in ThreadIds : lockMerge(p, k)

MergeElement == \E p \in Procs : \E k \in ThreadIds : mergeElement(p, k)

JoinThreads == \E p \in Procs : joinThreads(p)

NextThreads ==
  \/ SetupConnectivity
  \/ SetupElements
  \/ SetupDependentNodes
  \/ SetupBCs
  \/ SetNumThreads
  \/ Initialize
  \/ computeCouplingNodes
  \/ scatterExternalBCs
  \/ InitializeFinish
  \/ AssembleSequential
  \/ AssembleThreaded
  \/ LockCursor
  \/ ClaimElement
  \/ LockMerge
  \/ MergeElement
  \/ JoinThreads
  \/ assembleResSetValues
  \/ assembleJacobianAssembly
  \/ assembleMatTypeAssembly

SpecThreads == InitThreads /\ [][NextThreads]_vars

\* ---------------------------------------------------------------------
\* Distributed assembly of one mesh: the chain of ChainElems two-node
\* elements on the nodes 0 .. ChainElems, whose nodes and elements are
\* split over the processes in every way
\* ---------------------------------------------------------------------
ChainNodes == ChainElems + 1

\* element e of the chain joins the nodes e and e + 1
ChainRun(e) == << e, e + 1 >>

\* the ways to give every process its share of n items
Splits(n) == { f \in [ Procs -> 0 .. n ] : PrefixSum(f, mpiSize) = n }

InitChain ==
  \E owned \in Splits(ChainNodes) : \E nelems \in Splits(ChainElems) :
    Constructed(owned, nelems, [ p \in Procs |-> 0 ])

\* the elements of the chain that process q holds
ChainElementsOf(q) ==
  IF IsNull(elementTacsNodes[q]) THEN { }
  ELSE { At(Deref(elementTacsNodes[q]), 2 * k) : k \in 0 .. (numElements[q] - 1) }

\* the CSR arrays of the elements S of the chain, in increasing order
ChainConn(S) ==
  LET es == SortSet(S)
  IN [ ptr |-> [ i \in 1 .. (Len(es) + 1) |-> 2 * (i - 1) ],
       conn |-> [ j \in 1 .. (2 * Len(es)) |->
                    ChainRun(es[(j + 1) \div 2])[2 - (j % 2)] ] ]

\* a process is given its share of the elements: elements that no other
\* process holds
SetupChain ==
  \E p \in Procs : \E S \in SUBSET (0 .. (ChainElems - 1)) :
    /\ Cardinality(S) = numElements[p]
    /\ \A q \in Procs \ { p } : S \cap ChainElementsOf(q) = { }
    /\ setElementConnectivity(p, ChainConn(S).conn, ChainConn(S).ptr)

AssembleChain ==
  \E p \in Procs :
    meshInitializedFlag[p] = 1 /\ assembleRes(p, Ptr("residual"))

NextChain ==
  \/ SetupChain
  \/ SetupElements
  \/ Initialize
  \/ computeCouplingNodes
  \/ scatterExternalBCs
  \/ InitializeFinish
  \/ AssembleChain
  \/ assembleResSetValues

SpecChain == InitChain /\ [][NextChain]_vars

\* ---------------------------------------------------------------------
\* Matrices: callers that set up a mesh of MatElems elements per process,
\* with and without a dependent node, initialize and create matrices
\* ---------------------------------------------------------------------
InitMat ==
  Constructed([ p \in Procs |-> OwnedPerProc ],
              [ p \in Procs |-> MatElems ],
              [ p \in Procs |-> IF p \in FaultyRanks THEN DepsPerProc ELSE 0 ])

\* the node lists of the elements of p: any of the well-formed ones
MixedRuns(p) == ValidRuns(p) \cup DependentRuns(p)

\* every element is given one of the node lists
SetupMixed ==
  \E p \in Procs : \E runs \in [ 1 .. numElements[p] -> MixedRuns(p) ] :
    setElementConnectivity(p, Flatten(runs),
                           UniformPtr(runs[1], numElements[p]))

CreateMat == \E p \in Procs : createMat(p)

CreateFEMat ==
  \E p \in Procs : \E order_type \in OrderingTypes : createFEMat(p, order_type)

CreateFEMatOrder == \E p \in Procs : createFEMatOrder(p)

NextMat ==
  \/ SetupMixed
  \/ SetupElements
  \/ SetupDependentNodes
  \/ Initialize
  \/ computeCouplingNodes
  \/ scatterExternalBCs
  \/ InitializeFinish
  \/ CreateMat
  \/ CreateFEMat
  \/ CreateFEMatOrder

SpecMat == InitMat /\ [][NextMat]_vars

\* ---------------------------------------------------------------------
\* Design variable bounds: callers whose elements hold different bounds
\* on different processes and that ask for the range
\* ---------------------------------------------------------------------
\* the bounds the elements of a process may hold
RangeInputs == { [ lb |-> l, ub |-> u ] : l \in 0 .. 1, u \in 2 .. 3 }

\* the values the caller's arrays may hold before the call
LowestBound == -1
HighestBound == 4

InitRange ==
  \E ranges \in [ Procs -> RangeInputs ] :
    ConstructedWith([ p \in Procs |-> OwnedPerProc ],
                    [ p \in Procs |-> ElemsPerProc ],
                    [ p \in Procs |-> 0 ], ranges)

\* the auxiliary elements a caller may hand over: none, or lists of at most
\* MaxAux elements attached to elements of the process, in any order
AuxInputs(p) ==
  { NULL }
    \cup UNION { { Ptr([ a \in 1 .. n |-> AuxElem(nums[a], a) ]) :
                    nums \in [ 1 .. n -> 0 .. (numElements[p] - 1) ] } :
                  n \in 1 .. MaxAux }

SetAuxElements == \E p \in Procs : \E aux \in AuxInputs(p) : setAuxElements(p, aux)

GetDesignVarRange ==
  \E p \in Procs : getDesignVarRange(p, LowestBound, HighestBound)

NextRange ==
  \/ SetupElements
  \/ SetAuxElements
  \/ GetDesignVarRange

SpecRange == InitRange /\ [][NextRange]_vars

\* ---------------------------------------------------------------------
\* Evaluation: callers that choose a thread count and auxiliary elements,
\* set the mesh up with well-formed inputs, initialize, and evaluate
\* functions, their sensitivities and adjoint products
\* ---------------------------------------------------------------------
InitEval ==
  Constructed([ p \in Procs |-> OwnedPerProc ],
              [ p \in Procs |-> ThreadedElems ],
              [ p \in Procs |-> 0 ])

\* the ranks whose caller evaluates; the auxiliary elements are handed over
\* once the elements are set and before the mesh is initialized
EvalCallers == ThreadedRanks

SetAuxElementsOnce ==
  \E p \in EvalCallers : \E aux \in AuxInputs(p) :
    /\ meshInitializedFlag[p] = 0
    /\ ~ IsNull(elements[p])
    /\ setAuxElements(p, aux)

\* the number of functions or adjoints of a call
CountInputs == 1 .. MaxFuncs

EvalFunctions ==
  \E p \in EvalCallers : \E n \in CountInputs :
    meshInitializedFlag[p] = 1 /\ evalFunctions(p, n)

AddDVSens ==
  \E p \in EvalCallers : \E n \in CountInputs :
    meshInitializedFlag[p] = 1 /\ addDVSens(p, n)

AddXptSens ==
  \E p \in EvalCallers : \E n \in CountInputs :
    meshInitializedFlag[p] = 1 /\ addXptSens(p, n)

AddAdjointResProducts ==
  \E p \in EvalCallers : \E n \in CountInputs :
    meshInitializedFlag[p] = 1 /\ addAdjointResProducts(p, n)

AddAdjointResXptSensProducts ==
  \E p \in EvalCallers : \E n \in CountInputs :
    meshInitializedFlag[p] = 1 /\ addAdjointResXptSensProducts(p, n)

NextEval ==
  \/ SetNumThreads
  \/ SetupConnectivity
  \/ SetupElements
  \/ SetAuxElementsOnce
  \/ Initialize
  \/ computeCouplingNodes
  \/ scatterExternalBCs
  \/ InitializeFinish
  \/ EvalFunctions
  \/ AddDVSens
  \/ AddXptSens
  \/ AddAdjointResProducts
  \/ AddAdjointResXptSensProducts

SpecEval == InitEval /\ [][NextEval]_vars

\* ---------------------------------------------------------------------
\* Collective calls: every caller calls computeReordering() once, then
\* initialize() once, whatever it has set up before; a call that has been
\* entered runs on, and a collective completes once every process is in it
\* ---------------------------------------------------------------------
InitCollective ==
  Constructed([ p \in Procs |-> OwnedPerProc ],
              [ p \in Procs |-> ElemsPerProc ],
              [ p \in Procs |-> 0 ])

\* the first collective call of the caller of p
CallComputeReordering(p) ==
  /\ called[p] = 0
  /\ \E order_type \in OrderingInputs : \E mat_type \in MatrixOrderingInputs :
       computeReordering(p, order_type, mat_type)
  /\ called' = [ called EXCEPT ![p] = 1 ]

\* the second collective call of the caller of p
CallInitialize(p) ==
  /\ called[p] = 1
  /\ initialize(p)
  /\ called' = [ called EXCEPT ![p] = 2 ]

CallsComputeReordering == \E p \in Procs : CallComputeReordering(p)

CallsInitialize == \E p \in Procs : CallInitialize(p)

NextCollective ==
  \/ SetupConnectivity
  \/ SetupElements
  \/ CallsComputeReordering
  \/ CallsInitialize
  \/ computeCouplingNodes
  \/ ComputeReorderingOrder
  \/ computeReorderingExchange
  \/ ComputeReorderingRewrite
  \/ scatterExternalBCs
  \/ InitializeFinish

\* every caller goes on to its next call, the code of a call runs on, and
\* a collective that every process has entered completes
FairCollective ==
  /\ \A p \in Procs :
       /\ WF_vars(CallComputeReordering(p))
       /\ WF_vars(CallInitialize(p))
       /\ WF_vars(computeReorderingOrder(p))
       /\ WF_vars(computeReorderingRewrite(p))
       /\ WF_vars(initializeFinish(p))
  /\ WF_vars(computeCouplingNodes)
  /\ WF_vars(computeReorderingExchange)
  /\ WF_vars(scatterExternalBCs)

SpecCollective == InitCollective /\ [][NextCollective]_vars /\ FairCollective

\* =====================================================================
\* Properties
\* =====================================================================
\* a step of one of the four setup calls by process p
SetupStep(p) ==
  \/ \E c \in ConnInputs(p) : setElementConnectivity(p, c.conn, c.ptr)
  \/ \E es \in ElementInputs(p) : setElements(p, es)
  \/ \E tbl \in DepInputs(p) : setDependentNodes(p, tbl)
  \/ \E nodes \in BCNodeInputs(p) : \E bvars \in BCVarInputs :
       addBCs(p, nodes, IF IsNull(bvars) THEN -1 ELSE Len(Deref(bvars)), bvars)

\* C1: once initialize() has succeeded on a process, every call of
\* setElementConnectivity, setElements and setDependentNodes returns a
\* nonzero value and addBCs refuses the call, and such a call leaves the
\* stored connectivity, element list, dependent-node table and boundary
\* conditions exactly as they were.
C1_SetupRefusedAfterInitialize ==
  /\ [](\A p \in Procs :
          meshInitializedFlag[p] = 1 =>
            /\ \A c \in ConnInputs(p) :
                 0 \notin setElementConnectivityRet(p, c.conn, c.ptr)
            /\ \A es \in ElementInputs(p) : setElementsRet(p, es) # 0
            /\ \A tbl \in DepInputs(p) : setDependentNodesRet(p, tbl) # 0
            /\ addBCsError(p))
  /\ [][\A p \in Procs :
          meshInitializedFlag[p] = 1 /\ SetupStep(p) =>
            UNCHANGED << elementNodeIndex, elementTacsNodes, elements,
                         depNodes, bcMap >>]_vars

\* an initialized, idle process that stores a connectivity, elements, a
\* dependent-node table and a boundary condition, and whose caller has
\* inputs for all four setup calls
C1_Witness ==
  \E p \in Procs :
    /\ meshInitializedFlag[p] = 1 /\ pc[p] = "idle"
    /\ ~ IsNull(elementData[p])
    /\ ~ IsNull(depNodes[p]) /\ Len(bcMap[p]) > 0
    /\ DepInputs(p) # { }

\* a step of a computeReordering call by process p
ReorderingStep(p) ==
  \/ \E order_type \in OrderingInputs : \E mat_type \in MatrixOrderingInputs :
       computeReordering(p, order_type, mat_type)
  \/ computeReorderingOrder(p)
  \/ computeReorderingRewrite(p)

\* C2: computeReordering() called after initialize() has succeeded is
\* refused, and no step of it changes the element connectivity, the
\* parents of the dependent nodes, the boundary-condition nodes, the
\* external-node list or the stored permutation.
C2_ReorderingRefusedAfterInitialize ==
  /\ [](\A p \in Procs :
          meshInitializedFlag[p] = 1 /\ pc[p] = "idle"
            => computeReorderingRejects(p))
  /\ [][\A p \in Procs :
          meshInitializedFlag[p] = 1 /\ ReorderingStep(p) =>
            UNCHANGED << elementTacsNodes, depNodes, bcMap, tacsExtNodeNums,
                         extDistIndices, newNodeIndices >>]_vars

\* C3: once computeReordering() has completed, the stored permutation is
\* the same in every later state, and every further computeReordering()
\* call is refused.
C3_PermutationImmutable ==
  /\ [][\A p \in Procs :
          ~ IsNull(newNodeIndices[p]) =>
            newNodeIndices'[p] = newNodeIndices[p]]_vars
  /\ [](\A p \in Procs :
          ~ IsNull(newNodeIndices[p]) /\ pc[p] = "idle"
            => computeReorderingRejects(p))

\* a step of one of the three assembly calls by process p
AssembleStep(p) ==
  \/ \E res \in VecInputs(p) : assembleRes(p, res)
  \/ \E res \in VecInputs(p) : \E A \in MatInputs(p) :
       assembleJacobian(p, res, A)
  \/ \E A \in MatInputs(p) : assembleMatType(p, A)

\* C4: assembleRes, assembleJacobian and assembleMatType called on an
\* assembler that is not initialized return at once: no accumulator is
\* zeroed and nothing else changes.
C4_AssemblyRefusedBeforeInitialize ==
  [][\A p \in Procs :
       meshInitializedFlag[p] = 0 /\ AssembleStep(p) => UNCHANGED vars]_vars

\* the four cases in which initialize() has to fail
InitializeFailureCase(p) ==
  \/ meshInitializedFlag[p] = 1
  \/ IsNull(elements[p])
  \/ IsNull(elementNodeIndex[p])
  \/ numDependentNodes[p] > 0 /\ IsNull(depNodes[p])

\* C5: initialize() returns a nonzero value and changes nothing when the
\* assembler is already initialized, has no element list, has no
\* connectivity, or has dependent nodes but no dependent-node table.
C5_InitializeFailuresChangeNothing ==
  /\ [](\A p \in Procs :
          InitializeFailureCase(p) => 0 \notin initializeRet(p))
  /\ [][\A p \in Procs :
          InitializeFailureCase(p) /\ initialize(p) => UNCHANGED vars]_vars

\* an idle process with elements and a connectivity that lacks only the
\* dependent-node table it needs
C5_Witness ==
  \E p \in Procs :
    /\ pc[p] = "idle" /\ Running
    /\ meshInitializedFlag[p] = 0
    /\ ~ IsNull(elements[p]) /\ ~ IsNull(elementNodeIndex[p])
    /\ numDependentNodes[p] > 0 /\ IsNull(depNodes[p])

\* C6: when setElementConnectivity reports a run that does not match its
\* element, a node at or above ownerRange[P] or a node below
\* -numDependentNodes, the connectivity stored before the call is still
\* the stored connectivity.
C6_FailedConnectivityKeepsOld ==
  [][\A p \in Procs : \A c \in ConnInputs(p) :
       /\ setElementConnectivity(p, c.conn, c.ptr)
       /\ \/ /\ ~ IsNull(elements[p])
             /\ ConnMismatch(Deref(elements[p]), c.ptr, numElements[p])
          \/ \E k \in 1 .. Len(c.conn) :
               \/ c.conn[k] >= ownerRange[mpiSize]
               \/ c.conn[k] < - numDependentNodes[p]
       => UNCHANGED << elementNodeIndex, elementTacsNodes >>]_vars

\* every parent of the table is an independent node in range
ParentsInRange(conn) ==
  \A i \in 1 .. Len(conn) : conn[i] >= 0 /\ conn[i] < ownerRange[mpiSize]

\* C7: when setDependentNodes reports a parent that is negative or at or
\* above ownerRange[P], the dependent-node table stored before the call is
\* still stored, with the reference it had.
C7_FailedDependentNodesKeepsOld ==
  [][\A p \in Procs : \A tbl \in DepInputs(p) :
       /\ setDependentNodes(p, tbl)
       /\ ~ setDependentNodesRejects(p)
       /\ ~ ParentsInRange(tbl.conn)
       => depNodes'[p] = depNodes[p]]_vars

\* C8: in every state in which a process is initialized, each run of its
\* connectivity is as long as its element has nodes and every entry lies
\* in [-numDependentNodes, ownerRange[P]).
C8_InitializedMeshConsistent ==
  \A p \in Procs :
    meshInitializedFlag[p] = 1 =>
      /\ \A i \in 0 .. (numElements[p] - 1) :
           At(Deref(elementNodeIndex[p]), i + 1)
             - At(Deref(elementNodeIndex[p]), i)
               = At(Deref(elements[p]), i).numNodes
      /\ \A k \in 1 .. Len(Deref(elementTacsNodes[p])) :
           /\ Deref(elementTacsNodes[p])[k] >= - numDependentNodes[p]
           /\ Deref(elementTacsNodes[p])[k] < ownerRange[mpiSize]

\* C9: setDependentNodes returns 0 only for a table whose parents all lie
\* in [0, ownerRange[P]), and a table it stores has such parents only.
C9_DependentParentsValidated ==
  /\ [](\A p \in Procs : \A tbl \in DepInputs(p) :
          setDependentNodesRet(p, tbl) = 0 => ParentsInRange(tbl.conn))
  /\ [][\A p \in Procs : \A tbl \in DepInputs(p) :
          /\ setDependentNodes(p, tbl)
          /\ depNodes'[p] # depNodes[p]
          /\ ~ IsNull(depNodes'[p])
          /\ Deref(depNodes'[p]).refs > 0
          => ParentsInRange(Deref(depNodes'[p]).conn)]_vars

\* a process that stores a valid table and whose caller also has a table
\* with a parent out of range
C9_Witness ==
  \E p \in Procs :
    /\ DepNodesValid(p)
    /\ ParentsInRange(Deref(depNodes[p]).conn)
    /\ \E tbl \in DepInputs(p) : ~ ParentsInRange(tbl.conn)

\* every global node below ownerRange[P] lies in the range of one process
OneOwnerEach ==
  \A g \in 0 .. (ownerRange[mpiSize] - 1) :
    Cardinality({ r \in Procs :
                    ownerRange[r] <= g /\ g < ownerRange[r + 1] }) = 1

\* the number of nodes of all processes
GlobalNodeCount == SumSeq([ k \in 1 .. mpiSize |-> numOwnedNodes[k - 1] ])

\* C10 as stated: for any vector of owned counts ownerRange is strictly
\* increasing, starts at 0, ends at the sum of the counts, and every
\* global node below ownerRange[P] lies in exactly one range.
C10_StrictlyIncreasingPartition ==
  /\ \A r \in Procs : ownerRange[r] < ownerRange[r + 1]
  /\ ownerRange[0] = 0
  /\ ownerRange[mpiSize] = GlobalNodeCount
  /\ OneOwnerEach

\* C10: for any vector of owned counts ownerRange is non-decreasing, and
\* increases strictly exactly at the processes that own a node; it starts
\* at 0, ends at the sum of the counts, every global node below
\* ownerRange[P] lies in exactly one range, and that is the range of the
\* owner a query names.
C10_OwnershipPartition ==
  /\ \A r \in Procs : ownerRange[r] <= ownerRange[r + 1]
  /\ \A r \in Procs :
       numOwnedNodes[r] > 0 <=> ownerRange[r] < ownerRange[r + 1]
  /\ ownerRange[0] = 0
  /\ ownerRange[mpiSize] = GlobalNodeCount
  /\ OneOwnerEach
  /\ query # << >> =>
       IF 0 <= query[1] /\ query[1] < ownerRange[mpiSize]
       THEN /\ query[2] \in Procs
            /\ ownerRange[query[2]] <= query[1]
            /\ query[1] < ownerRange[query[2] + 1]
       ELSE query[2] = -1

\* a query for a node of the second process, behind a first process that
\* owns no node
C10_Witness ==
  /\ numOwnedNodes[0] = 0
  /\ query # << >>
  /\ query[1] = 0
  /\ query[2] = 1

\* the array is sorted and has no duplicates
IsStrictlyIncreasing(a) == \A i \in 1 .. (Len(a) - 1) : a[i] < a[i + 1]

\* the non-negative global IDs outside the owned range of p that occur in
\* its connectivity or as a parent in its dependent-node table
ReferencedExternals(p) ==
  { g \in Range(Deref(elementTacsNodes[p])) \cup Range(DepConnOf(p)) :
      g >= 0 /\ (g < ownerRange[p] \/ g >= ownerRange[p + 1]) }

\* a step of p in which computeExtNodes runs to its end: at the start of
\* computeReordering, or in initialize() when no external list exists
ComputeExtNodesStep(p) ==
  /\ meshInitializedFlag[p] = 0
  /\ pc'[p] # "crashed"
  /\ \/ /\ ~ computeReorderingRejects(p)
        /\ \E order_type \in OrderingTypes :
             \E mat_type \in MatrixOrderingTypes :
               computeReordering(p, order_type, mat_type)
     \/ /\ ~ initializeRejects(p)
        /\ IsNull(tacsExtNodeNums[p])
        /\ initialize(p)

\* the external list of p in the next state: initialize() hands it over to
\* extDistIndices
ExtListAfter(p) ==
  IF IsNull(tacsExtNodeNums'[p]) THEN Deref(extDistIndices'[p])
  ELSE Deref(tacsExtNodeNums'[p])

\* C11: after computeExtNodes on a process whose dependent-node table, if
\* it has one, has not been deleted, the external list is strictly
\* increasing, its entries are exactly the non-negative global IDs outside
\* the owned range that occur in the connectivity or as a parent of a
\* dependent node, numNodes = numOwnedNodes + numExtNodes, and
\* extNodeOffset is the number of external IDs below the owned range.
C11_ExtNodesSortedExact ==
  [][\A p \in Procs :
       ComputeExtNodesStep(p) /\ ~ ReadsDeletedDepNodes(p) =>
         /\ IsStrictlyIncreasing(ExtListAfter(p))
         /\ Range(ExtListAfter(p)) = ReferencedExternals(p)
         /\ numExtNodes'[p] = Len(ExtListAfter(p))
         /\ numNodes'[p] = numOwnedNodes[p] + numExtNodes'[p]
         /\ extNodeOffset'[p] =
              Cardinality({ g \in ReferencedExternals(p) : g < ownerRange[p] })]_vars

\* both processes have computed their external lists: process 0 names its
\* external node twice, in the connectivity and as a parent, and holds it
\* once, above its range; process 1 holds an external node below its range
C11_Witness ==
  /\ \A p \in Procs : pc[p] = "computeReordering:coupling"
  /\ DepNodesValid(0)
  /\ ExtNode(0) \in Range(Deref(elementTacsNodes[0]))
  /\ ExtNode(0) \in Range(DepConnOf(0))
  /\ numExtNodes[0] = 1 /\ extNodeOffset[0] = 0
  /\ numExtNodes[1] = 1 /\ extNodeOffset[1] = 1

\* ---------------------------------------------------------------------
\* the global numbers process p has a local number for: its owned nodes and
\* the nodes of its external list
OwnedGlobal(p) == ownerRange[p] .. (ownerRange[p + 1] - 1)

ExternalGlobal(p) ==
  IF IsNull(ExtNodes(p)) THEN { }
  ELSE { At(Deref(ExtNodes(p)), i) : i \in 0 .. (numExtNodes[p] - 1) }

\* the local index space of p once its external list exists
LocalIndices(p) ==
  IF IsNull(ExtNodes(p)) THEN OwnedLocal(p) ELSE 0 .. (numNodes[p] - 1)

\* C12: getLocalNodeNum and getGlobalNodeNum are inverses of each other on
\* the local index space of every process: an owned node has its local
\* number in [extNodeOffset, extNodeOffset + numOwnedNodes), an external
\* node below the owned range in [0, extNodeOffset), an external node above
\* it in [extNodeOffset + numOwnedNodes, numNodes); in every state of a
\* running job, before and after computeReordering and after initialize().
C12_LocalGlobalInverse ==
  \A p \in Procs :
    Running =>
      /\ \A g \in OwnedGlobal(p) :
           /\ getLocalNodeNum(p, g) \in OwnedLocal(p)
           /\ getGlobalNodeNum(p, getLocalNodeNum(p, g)) = g
      /\ \A g \in ExternalGlobal(p) :
           /\ getGlobalNodeNum(p, getLocalNodeNum(p, g)) = g
           /\ g < ownerRange[p] =>
                getLocalNodeNum(p, g) \in 0 .. (extNodeOffset[p] - 1)
           /\ g >= ownerRange[p + 1] =>
                getLocalNodeNum(p, g)
                  \in (extNodeOffset[p] + numOwnedNodes[p])
                        .. (numNodes[p] - 1)
      /\ \A l \in LocalIndices(p) :
           getLocalNodeNum(p, getGlobalNodeNum(p, l)) = l

\* both processes have reordered and initialized with one external node
\* each, below the owned range on process 1 and above it on process 0
C12_Witness ==
  /\ \A p \in Procs : meshInitializedFlag[p] = 1 /\ pc[p] = "idle"
  /\ \A p \in Procs : ~ IsNull(newNodeIndices[p])
  /\ numExtNodes[0] = 1 /\ extNodeOffset[0] = 0
  /\ numExtNodes[1] = 1 /\ extNodeOffset[1] = 1
  /\ getLocalNodeNum(0, At(Deref(ExtNodes(0)), 0)) = numOwnedNodes[0]
  /\ getLocalNodeNum(1, At(Deref(ExtNodes(1)), 0)) = 0

\* ---------------------------------------------------------------------
\* process p orders its nodes and goes on to the exchange
OrderingDone(p) ==
  computeReorderingOrder(p) /\ pc'[p] = "computeReordering:exchange"

\* the local numbers of the owned nodes that newNodeNums nn maps to g
OwnedWithNewNum(p, nn, g) ==
  { k \in OwnedLocal(p) : ~ IsNull(At(nn, k)) /\ Deref(At(nn, k)) = g }

\* C13: for every ordering type and every matrix type, with back ends that
\* return permutations, the new numbers computeReordering gives the owned
\* nodes of process r form a bijection of [ownerRange[r], ownerRange[r+1])
\* onto itself: every owned node gets a number, and every number of the
\* range is given to exactly one owned node.
C13_OwnedRenumberingBijective ==
  [][\A p \in Procs :
       OrderingDone(p) =>
         /\ \A k \in OwnedLocal(p) : ~ IsNull(At(frame'[p].newNodeNums, k))
         /\ \A g \in OwnedGlobal(p) :
              Cardinality(OwnedWithNewNum(p, frame'[p].newNodeNums, g)) = 1]_vars

\* process 0 has ordered its nodes in two blocks (approximate Schur, a back
\* end that permutes) and has exchanged its first two owned numbers
C13_Witness ==
  /\ pc[0] = "computeReordering:exchange"
  /\ frame[0].mat_type = "APPROXIMATE_SCHUR"
  /\ frame[0].order_type = "AMD_ORDER"
  /\ numExtNodes[0] = 1
  /\ Len(frame[0].newNodeNums) = numNodes[0]
  /\ At(frame[0].newNodeNums, extNodeOffset[0]) = Ptr(ownerRange[0] + 1)
  /\ At(frame[0].newNodeNums, extNodeOffset[0] + 1) = Ptr(ownerRange[0])

\* ---------------------------------------------------------------------
\* the owned nodes of p that another process references as external
ReferencedByOthers(p) ==
  { g \in OwnedGlobal(p) :
      \E q \in Procs \ { p } : g \in ReferencedExternals(q) }

\* the number of owned nodes of p that no other process references
NumInterior(p) == numOwnedNodes[p] - Cardinality(ReferencedByOthers(p))

\* the new number of the owned node g of p in newNodeNums nn
OwnedNewNum(p, nn, g) == Deref(At(nn, (g - ownerRange[p]) + extNodeOffset[p]))

\* C14: with DIRECT_SCHUR on more than one process, let C be the owned
\* nodes of process r that another process references as external and
\* m = numOwnedNodes - |C|; computeReordering numbers every owned node
\* outside C in [ownerRange[r], ownerRange[r] + m) and every node of C in
\* the trailing block [ownerRange[r] + m, ownerRange[r+1]).
C14_DirectSchurBlocks ==
  [][\A p \in Procs :
       OrderingDone(p) /\ frame[p].mat_type = "DIRECT_SCHUR" =>
         \A g \in OwnedGlobal(p) :
           LET new == OwnedNewNum(p, frame'[p].newNodeNums, g)
               split == ownerRange[p] + NumInterior(p)
           IN IF g \in ReferencedByOthers(p)
              THEN split <= new /\ new < ownerRange[p + 1]
              ELSE ownerRange[p] <= new /\ new < split]_vars

\* process 1 has ordered its two owned nodes with DIRECT_SCHUR: the first
\* one, which process 0 references, got the last number of the range
C14_Witness ==
  /\ pc[1] = "computeReordering:exchange"
  /\ frame[1].mat_type = "DIRECT_SCHUR"
  /\ ReferencedByOthers(1) = { FirstOwned(1) }
  /\ NumInterior(1) = 1
  /\ OwnedNewNum(1, frame[1].newNodeNums, FirstOwned(1)) = LastOwned(1)
  /\ OwnedNewNum(1, frame[1].newNodeNums, LastOwned(1)) = FirstOwned(1)

\* ---------------------------------------------------------------------
\* the coupling nodes of p by their global numbers: the owned nodes another
\* process references and the external nodes of p
CouplingGlobal(p) == ReferencedByOthers(p) \cup ExternalGlobal(p)

\* global nodes a and b are adjacent on p: some local element has both
\* among its independent nodes
AdjacentOn(p, a, b) ==
  \E e \in 0 .. (numElements[p] - 1) :
    { getLocalNodeNum(p, a), getLocalNodeNum(p, b) }
      \subseteq ElementLocalNodes(p, e)

\* the trailing block of the approximate Schur ordering: the owned coupling
\* nodes and the owned nodes adjacent to a coupling node
WidenedCoupling(p) ==
  ReferencedByOthers(p)
    \cup { g \in OwnedGlobal(p) : \E c \in CouplingGlobal(p) : AdjacentOn(p, g, c) }

\* the first number of the trailing block: the leading block holds the
\* nodes of the first ordering
TrailingStart(p) ==
  ownerRange[p] + NumFirst(p, frame[p].mat_type, frame[p].couplingNodes)

\* C15: with APPROXIMATE_SCHUR the trailing block of computeReordering
\* holds every owned coupling node and every owned node adjacent in the
\* local adjacency to a coupling node, owned or external; every other owned
\* node is in the leading block.
C15_ApproximateSchurBlocks ==
  [][\A p \in Procs :
       OrderingDone(p) /\ frame[p].mat_type = "APPROXIMATE_SCHUR" =>
         \A g \in OwnedGlobal(p) :
           g \in WidenedCoupling(p) <=>
             OwnedNewNum(p, frame'[p].newNodeNums, g) >= TrailingStart(p)]_vars



\* ---------------------------------------------------------------------
\* process p rewrites its node references and returns from computeReordering
RewriteDone(p) == computeReorderingRewrite(p) /\ pc'[p] = "idle"

\* the new number process q gave its owned node g: in newNodeNums while q
\* is inside the call, in newNodeIndices once it has returned
AssignedNum(q, g) ==
  LET l == (g - ownerRange[q]) + extNodeOffset[q]
  IN IF pc[q] = "computeReordering:rewrite"
     THEN Deref(At(frame[q].newNodeNums, l))
     ELSE At(Deref(newNodeIndices[q]), l)

\* the new number of global node g of process p's external nodes, as its
\* owner assigned it
OwnerAssigned(g) == AssignedNum(getOwner(ownerRange, g), g)

NewNumber(p, g) ==
  IF g \in OwnedGlobal(p) THEN AssignedNum(p, g) ELSE OwnerAssigned(g)

\* C17: computeReordering rewrites every node reference: when it returns,
\* each non-negative connectivity entry, each dependent-node parent and
\* each boundary-condition node is the new number of the node it named
\* before the call; the negative connectivity entries, the connectivity
\* offsets, and the offsets and weights of the dependent nodes are
\* unchanged.
C17_ReferencesRewritten ==
  [][\A p \in Procs :
       RewriteDone(p) =>
         LET conn == Deref(elementTacsNodes[p])
             after == Deref(elementTacsNodes'[p])
         IN /\ Len(after) = Len(conn)
            /\ \A i \in 1 .. Len(conn) :
                 after[i] = IF conn[i] >= 0 THEN NewNumber(p, conn[i])
                            ELSE conn[i]
            /\ elementNodeIndex'[p] = elementNodeIndex[p]
            /\ IsNull(depNodes'[p]) = IsNull(depNodes[p])
            /\ ~ IsNull(depNodes[p]) =>
                 /\ Deref(depNodes'[p]).ptr = Deref(depNodes[p]).ptr
                 /\ Deref(depNodes'[p]).weights = Deref(depNodes[p]).weights
                 /\ Len(Deref(depNodes'[p]).conn) = Len(DepConnOf(p))
                 /\ \A i \in 1 .. Len(DepConnOf(p)) :
                      Deref(depNodes'[p]).conn[i] = NewNumber(p, DepConnOf(p)[i])
            /\ Len(bcMap'[p]) = Len(bcMap[p])
            /\ \A i \in 1 .. Len(bcMap[p]) :
                 bcMap'[p][i] =
                   [ bcMap[p][i] EXCEPT !.node = NewNumber(p, bcMap[p][i].node) ]]_vars

\* process 0 has returned from a reordering that exchanged its two owned
\* nodes: its element names a dependent node and the renumbered first
\* node, its dependent node has the renumbered last node as a parent, and
\* its boundary condition moved with the first node
C17_Witness ==
  /\ pc[0] = "idle" /\ ~ IsNull(newNodeIndices[0])
  /\ At(Deref(newNodeIndices[0]), extNodeOffset[0]) = LastOwned(0)
  /\ Range(Deref(elementTacsNodes[0])) = { -1, LastOwned(0) }
  /\ ~ IsNull(depNodes[0])
  /\ DepConnOf(0)[1] = FirstOwned(0)
  /\ Len(bcMap[0]) > 0
  /\ bcMap[0][1].node = LastOwned(0)

\* ---------------------------------------------------------------------
\* the positions of a process inside an assembly call
LoopPoints == { LoopPoint(kind) : kind \in AssemblyKinds }

ReducePoints == { ReducePoint(point) : point \in LoopPoints }

\* the boundary conditions of p hold in the accumulators acc of the call
\* that was at point: zero residual entries, unit matrix rows
BCsApplied(p, point, res, A) ==
  \A i \in 1 .. numOwnedNodes[p] :
    LET n == ownerRange[p] + i - 1
    IN HasBC(p, n) =>
         /\ point # "assembleMatType:assembly" /\ frame[p].withResidual =>
              res[i] = 0
         /\ point # "assembleRes:setValues" =>
              \A c \in 0 .. (ownerRange[mpiSize] - 1) :
                A[<< n, c >>] = IF n = c THEN 1 ELSE 0

\* the accumulators of p hold the sum over all processes wherever there
\* is no boundary condition
Reduced(p, point, res, A) ==
  \A i \in 1 .. numOwnedNodes[p] :
    LET n == ownerRange[p] + i - 1
    IN ~ HasBC(p, n) =>
         /\ point # "assembleMatType:assembly" /\ frame[p].withResidual =>
              res[i] = residual[p][i] + ReceivedVec(p, n)
         /\ point # "assembleRes:setValues" =>
              \A c \in 0 .. (ownerRange[mpiSize] - 1) :
                A[<< n, c >>] = AssembledMat(p)[<< n, c >>]

\* C18: every assembleRes, assembleJacobian and assembleMatType call goes
\* through ZeroAccumulators, ElementLoop, CrossProcessReduce,
\* ApplyBoundaryConditions and Done in this order: the element loop starts
\* on zeroed accumulators with no element merged; the cross-process reduce
\* starts only when every element has been processed and every worker
\* thread has exited and is joined; the call returns only from the reduce,
\* with the sums reduced and the boundary conditions applied on top of them.
C18_AssemblyPhasesInOrder ==
  [][\A p \in Procs :
       pc'[p] # pc[p] /\ pc'[p] # "crashed"
         /\ (pc[p] \in LoopPoints \cup ReducePoints
               \/ pc'[p] \in LoopPoints \cup ReducePoints) =>
         \/ \* ZeroAccumulators, then the threads are launched
            /\ pc[p] = "idle" /\ pc'[p] \in LoopPoints
            /\ pc'[p] = LoopPoint("assembleRes") => residual'[p] = ZeroVec(p)
            /\ pc'[p] = LoopPoint("assembleJacobian")
                 /\ ~ IsNull(tacsPInfo'[p].res) => residual'[p] = ZeroVec(p)
            /\ pc'[p] # LoopPoint("assembleRes") => mat'[p] = ZeroMat(p)
            /\ \A e \in DOMAIN merged'[p] : merged'[p][e] = 0
            /\ numCompletedElements'[p] = 0
         \/ \* the sequential call: zeroing and the whole loop
            /\ pc[p] = "idle" /\ pc'[p] \in ReducePoints
            /\ numThreads[p] = 1
            /\ frame'[p].withResidual =>
                 residual'[p] = LoopVec(p, frame'[p].stale)
            /\ pc'[p] # "assembleRes:setValues" =>
                 mat'[p] = LoopMat(p, frame'[p].stale)
         \/ \* ElementLoop to CrossProcessReduce
            /\ pc[p] \in LoopPoints /\ pc'[p] = ReducePoint(pc[p])
            /\ \A e \in 0 .. (numElements[p] - 1) : merged[p][e] >= 1
            /\ \A k \in ThreadIds :
                 threads[p][k].at \in { "exit", "none" }
                   /\ threads'[p][k] = NoThread
            /\ tacs_mutex[p] = Free
            /\ residual'[p] = residual[p] /\ mat'[p] = mat[p]
         \/ \* CrossProcessReduce and ApplyBoundaryConditions to Done
            /\ pc[p] \in ReducePoints /\ pc'[p] = "idle"
            /\ Reduced(p, pc[p], residual'[p], mat'[p])
            /\ BCsApplied(p, pc[p], residual'[p], mat'[p])]_vars

\* process 0 has returned from an assembleJacobian call that ran two
\* worker threads over its elements, with a boundary condition on its
\* first node
C18_Witness ==
  /\ \A p \in Procs : pc[p] = "idle"
  /\ numThreads[0] = 2
  /\ ~ IsNull(tacsPInfo[0].mat) /\ ~ IsNull(tacsPInfo[0].res)
  /\ numCompletedElements[0] = numElements[0]
  /\ \A e \in DOMAIN merged[0] : merged[0][e] = 1
  /\ HasBC(0, FirstOwned(0))
  /\ residual[0][1] = 0
  /\ mat[0][<< FirstOwned(0), FirstOwned(0) >>] = 1
  /\ mat[0][<< LastOwned(0), LastOwned(0) >>] > 1

\* ---------------------------------------------------------------------
\* the worker threads of p that hold element e
Holders(p, e) == { k \in ThreadIds : threads[p][k].elem = e }

\* C19: in the threaded element loop every element index of
\* [0, numElements) is claimed by exactly one thread and processed exactly
\* once per pass, for every interleaving of the workers: an index below the
\* cursor is either held by one thread or merged once, an index at or above
\* it is untouched, and at the join every element is merged once. The
\* cursor is reset to 0 before the threads of a pass are launched, and it
\* is read and advanced only by a thread that holds the mutex.
C19_EachElementOnce ==
  /\ [](\A p \in Procs :
          InLoop(p) =>
            /\ numCompletedElements[p] <= numElements[p]
            /\ \A e \in 0 .. (numElements[p] - 1) :
                 merged[p][e] + Cardinality(Holders(p, e)) =
                   IF e < numCompletedElements[p] THEN 1 ELSE 0)
  /\ [][\A p \in Procs :
          /\ joinThreads(p) =>
               \A e \in 0 .. (numElements[p] - 1) : merged[p][e] = 1
          /\ pc[p] = "idle" /\ pc'[p] \in LoopPoints =>
               /\ numCompletedElements'[p] = 0
               /\ threads[p] = NoThreads
          /\ \A k \in ThreadIds :
               threads'[p][k].elem # threads[p][k].elem
                 /\ threads'[p][k].elem >= 0 =>
                 /\ tacs_mutex[p] = k
                 /\ threads'[p][k].elem = numCompletedElements[p]
          /\ numCompletedElements'[p] # numCompletedElements[p] =>
               \/ pc[p] = "idle" /\ pc'[p] \in LoopPoints
               \/ \E k \in ThreadIds :
                    /\ tacs_mutex[p] = k
                    /\ threads[p][k].at = "claim"
                    /\ numCompletedElements'[p] = numCompletedElements[p] + 1]_vars

\* two workers of process 0 hold one element each: the first is merging
\* element 0 under the mutex, the second has computed element 1
C19_Witness ==
  /\ InLoop(0)
  /\ numCompletedElements[0] = 2
  /\ threads[0][0] = [ at |-> "merge", elem |-> 0 ]
  /\ threads[0][1] = [ at |-> "compute", elem |-> 1 ]
  /\ tacs_mutex[0] = 0
  /\ \A e \in DOMAIN merged[0] : merged[0][e] = 0

\* ---------------------------------------------------------------------
\* the worker threads of p that are adding to the accumulators
Merging(p) == { k \in ThreadIds : threads[p][k].at = "merge" }

\* C20: the residual and the matrix assembled with more than one worker
\* thread equal, entry by entry, those the one-thread loop assembles on the
\* same mesh, for every interleaving of the workers: the threaded loop of
\* every call runs to its join, where the accumulators hold the sums of the
\* sequential loop, so that no contribution is lost or applied twice; and
\* no two threads add to the accumulators at the same time.
C20_ThreadCountInvariance ==
  /\ [](\A p \in Procs : InLoop(p) => Cardinality(Merging(p)) <= 1)
  /\ [][\A p \in Procs :
          InLoop(p) =>
            /\ pc'[p] # "crashed"
            /\ joinThreads(p) =>
                 /\ frame[p].withResidual =>
                      residual[p] = LoopVec(p, frame[p].stale)
                 /\ pc[p] # LoopPoint("assembleRes") =>
                      mat[p] = LoopMat(p, frame[p].stale)]_vars

\* ---------------------------------------------------------------------
\* C21
\* ---------------------------------------------------------------------
\* what a single-process assembly of the chain leaves at node n: one per
\* element that touches n
ChainValue(n) ==
  Cardinality({ e \in 0 .. (ChainElems - 1) :
                  \E k \in 1 .. 2 : ChainRun(e)[k] = n })

\* the elements of the chain are dealt out: every element is held by
\* exactly one process
ChainDistributed ==
  /\ \A e \in 0 .. (ChainElems - 1) : \E q \in Procs : e \in ChainElementsOf(q)
  /\ \A q \in Procs : Cardinality(ChainElementsOf(q)) = numElements[q]

\* C21: conservation under the ghost sum.  However the nodes and the
\* elements of the chain are split over the processes, when assembleRes
\* returns the owner of every node holds the sum of the contributions of all
\* the elements, on all processes, that touch the node: the value a
\* single-process assembly of the chain produces (1 at the two ends, 2 in
\* between).  No boundary condition is declared.
C21_GhostSumConserved ==
  [][assembleResSetValues =>
       /\ ChainDistributed
       /\ \A p \in Procs : \A i \in 1 .. numOwnedNodes[p] :
            residual'[p][i] = ChainValue(ownerRange[p] + i - 1)]_vars

\* the 4-element chain on two processes, two elements and at least two
\* nodes each, assembled: [1,2,2 | 2,1]
C21_Witness ==
  /\ numOwnedNodes = [ p \in Procs |-> IF p = 0 THEN 3 ELSE ChainNodes - 3 ]
  /\ \A p \in Procs : numElements[p] > 0 /\ meshInitializedFlag[p] = 1
  /\ \A p \in Procs : pc[p] = "idle"
  /\ \E p \in Procs : numExtNodes[p] > 0
  /\ residual[0] = << 1, 2, 2 >>
  /\ residual[mpiSize - 1][numOwnedNodes[mpiSize - 1]] = 1

\* ---------------------------------------------------------------------
\* C22
\* ---------------------------------------------------------------------
\* the owned nodes of p that carry a boundary condition
ConstrainedOwned(p) ==
  { bcMap[p][i].node : i \in 1 .. Len(bcMap[p]) }
    \cap (ownerRange[p] .. (ownerRange[p + 1] - 1))

\* the step that ends an assembly call with the boundary-condition phase;
\* it leaves a residual and a matrix on process p, or one of them
EndsWithResidual(p) ==
  \/ assembleResSetValues
  \/ assembleJacobianAssembly /\ frame[p].withResidual

EndsWithMat == assembleJacobianAssembly \/ assembleMatTypeAssembly

BCDofs(p, g) ==
  UNION { bcMap[p][i].vars :
            i \in { j \in 1 .. Len(bcMap[p]) : bcMap[p][j].node = g } }

\* initialize() has completed on every process
AllInitialized ==
  \A p \in Procs : pc[p] = "idle" /\ meshInitializedFlag[p] = 1

\* the external nodes of p that name a node of the mesh
HeldExternals(p) ==
  { g \in Range(Deref(extDistIndices[p])) : getOwner(ownerRange, g) \in Procs }

\* C23: once initialize() has completed on all processes, the
\* boundary-condition set of every process p marks, for every node g that p
\* holds as an external node, exactly the constrained DOFs that the owner of
\* g has in its own set, whether or not computeReordering ran before; and a
\* call of addBCs stores conditions for nodes of the caller's owned range
\* only.
C23_ExternalBCsConsistent ==
  /\ [](AllInitialized =>
          \A p \in Procs : \A g \in HeldExternals(p) :
            BCDofs(p, g) = BCDofs(getOwner(ownerRange, g), g))
  /\ [][\A p \in Procs : \A nodes \in BCNodeInputs(p) : \A bvars \in BCVarInputs :
          addBCs(p, nodes, IF IsNull(bvars) THEN -1 ELSE Len(Deref(bvars)), bvars)
            => \A i \in 1 .. Len(bcMap'[p]) :
                 i > Len(bcMap[p]) =>
                   /\ bcMap'[p][i].node >= ownerRange[p]
                   /\ bcMap'[p][i].node < ownerRange[p + 1]]_vars

\* all processes are initialized after a reordering, and a process holds an
\* external node for which its set marks the DOF its owner constrained
C23_Witness ==
  /\ AllInitialized
  /\ \A p \in Procs : ~ IsNull(newNodeIndices[p])
  /\ \E p \in Procs : \E g \in HeldExternals(p) :
       /\ BCDofs(p, g) # { }
       /\ BCDofs(p, g) = BCDofs(getOwner(ownerRange, g), g)

\* ---------------------------------------------------------------------
\* C24
\* ---------------------------------------------------------------------
\* computeReordering() has run on process p, initialize() has not
Reordered(p) ==
  /\ pc[p] = "idle"
  /\ meshInitializedFlag[p] = 0
  /\ ~ IsNull(newNodeIndices[p])

\* a step of one of the setup calls that name nodes, by process p
NodeSetupStep(p) ==
  \/ \E c \in ConnInputs(p) : setElementConnectivity(p, c.conn, c.ptr)
  \/ \E tbl \in DepInputs(p) : setDependentNodes(p, tbl)
  \/ \E nodes \in BCNodeInputs(p) : \E bvars \in BCVarInputs :
       addBCs(p, nodes, IF IsNull(bvars) THEN -1 ELSE Len(Deref(bvars)), bvars)

\* C24: once computeReordering() has run on a process and before
\* initialize(), every call of setElementConnectivity, setDependentNodes
\* and addBCs, which would bring in node numbers of the old numbering, is
\* reported as an error and leaves the stored connectivity, dependent-node
\* table and boundary conditions as they were.
C24_SetupRefusedAfterReordering ==
  /\ [](\A p \in Procs :
          Reordered(p) =>
            /\ \A c \in ConnInputs(p) :
                 0 \notin setElementConnectivityRet(p, c.conn, c.ptr)
            /\ \A tbl \in DepInputs(p) : setDependentNodesRet(p, tbl) # 0
            /\ addBCsError(p))
  /\ [][\A p \in Procs :
          Reordered(p) /\ NodeSetupStep(p) =>
            UNCHANGED << elementNodeIndex, elementTacsNodes, depNodes,
                         bcMap >>]_vars

\* (C25) computeLocalNodeToNodeCSR, full variant: row i is strictly
\* increasing and holds exactly the local indices of the independent nodes
\* (a dependent node replaced by its parents) of every element that
\* references node i directly or through a dependent node; with nodiag the
\* index i itself is left out; the adjacency is symmetric.  createMat hands
\* the rows with their diagonal to the matrix.
CSRRowExpected(p, i, nodiag) ==
  (UNION { ElementLocalNodes(p, e) : e \in NodeToElements(p, i) })
    \ (IF nodiag = 1 THEN { i } ELSE { })

CSRCallable(p) == meshInitializedFlag[p] = 1 /\ pc[p] # "crashed"

C25_NodeToNodeCSR ==
  \A p \in Procs :
    CSRCallable(p) =>
      /\ \A nodiag \in { 0, 1 } :
           LET rows == computeLocalNodeToNodeCSR(p, nodiag)
           IN /\ DOMAIN rows = 0 .. (numNodes[p] - 1)
              /\ \A i \in DOMAIN rows :
                   /\ IsStrictlyIncreasing(rows[i])
                   /\ Range(rows[i]) = CSRRowExpected(p, i, nodiag)
                   /\ \A j \in Range(rows[i]) : i \in Range(rows[j])
      /\ ~ IsNull(matPattern[p]) =>
           matPattern[p][1] = computeLocalNodeToNodeCSR(p, 0)

\* a created matrix on a process one of whose elements references a
\* dependent node, with a row that the node's parents extend
C25_Witness ==
  \E p \in Procs :
    /\ CSRCallable(p)
    /\ ~ IsNull(matPattern[p])
    /\ \E e \in 0 .. (numElements[p] - 1) :
         /\ \E k \in 1 .. Len(ElementRun(p, e)) : ElementRun(p, e)[k] < 0
         /\ \E i \in ElementLocalNodes(p, e) :
              /\ i \notin Range(ElementDirectSeq(p, e))
              /\ Len(matPattern[p][1][i]) >= 3
              /\ Len(computeLocalNodeToNodeCSR(p, 1)[i]) =
                   Len(matPattern[p][1][i]) - 1

\* (C26) After the first createFEMat on a process, for every ordering type,
\* the local-block and coupling-block index sets are disjoint and together
\* hold every local node 0 .. numNodes-1 exactly once, and the coupling
\* block holds exactly the coupling nodes: every external node and every
\* owned node that another process references.  The two maps hold the
\* global numbers of the two blocks.
FEMatCreated(p) == ~ IsNull(feMatBIndices[p])

C26_FEMatBlocksPartition ==
  \A p \in Procs :
    FEMatCreated(p) =>
      LET B == feMatBIndices[p][1]
          C == feMatCIndices[p][1]
      IN /\ Range(B) \cap Range(C) = { }
         /\ Range(B) \cup Range(C) = 0 .. (numNodes[p] - 1)
         /\ Len(B) + Len(C) = numNodes[p]
         /\ { getGlobalNodeNum(p, C[i]) : i \in 1 .. Len(C) } = CouplingGlobal(p)
         /\ feMatBMap[p][1] = [ i \in 1 .. Len(B) |-> getGlobalNodeNum(p, B[i]) ]
         /\ feMatCMap[p][1] = [ i \in 1 .. Len(C) |-> getGlobalNodeNum(p, C[i]) ]

\* a process whose coupling block holds an external node and an owned node
\* that the other process references, in decreasing order, next to a
\* non-empty local block
C26_Witness ==
  \E p \in Procs :
    /\ FEMatCreated(p)
    /\ Len(feMatBIndices[p][1]) >= 1
    /\ \E i, j \in 1 .. Len(feMatCIndices[p][1]) :
         /\ i < j
         /\ feMatCIndices[p][1][i] > feMatCIndices[p][1][j]
         /\ feMatCIndices[p][1][i] \in ExternalLocal(p)
         /\ feMatCIndices[p][1][j] \in OwnedLocal(p)

\* (C27) getDesignVarRange reconciles the bounds across the processes: a
\* process that has called it holds, for the design variable, the largest
\* lower bound and the smallest upper bound that the elements of any
\* process report, so that all processes hold the same arrays.
ReconciledRange ==
  ReducedDesignVarRange(mpiSize, [ lb |-> LowestBound, ub |-> HighestBound ])

C27_DesignVarRangeReconciled ==
  [][\A p \in Procs :
       getDesignVarRange(p, LowestBound, HighestBound) /\ pc'[p] # "crashed" =>
         /\ lb'[p] = Ptr(<< ReconciledRange.lb >>)
         /\ ub'[p] = Ptr(<< ReconciledRange.ub >>)]_vars

\* (C29) In addAdjointResProducts and addAdjointResXptSensProducts (element
\* loop run by the calling thread), every auxiliary element attached to an
\* element contributes exactly once to the product of every adjoint k: the
\* set of auxiliary elements that contribute does not depend on k.
Count(term, sum) == Cardinality({ j \in 1 .. Len(sum) : sum[j] = term })

AuxIds(p) ==
  IF IsNull(auxElements[p]) THEN { }
  ELSE { Deref(auxElements[p])[j].elem : j \in 1 .. Len(Deref(auxElements[p])) }

C29_AuxiliaryOncePerAdjoint ==
  [][\A p \in Procs : \A n \in CountInputs :
       numThreads[p] <= 1 /\ pc'[p] # "crashed" =>
         /\ addAdjointResProducts(p, n) =>
              \A k \in 1 .. n : \A a \in AuxIds(p) :
                Count(AuxTerm(a), Deref(fdvSens'[p])[k]) = 1
         /\ addAdjointResXptSensProducts(p, n) =>
              \A k \in 1 .. n : \A a \in AuxIds(p) :
                Count(AuxTerm(a), Deref(adjXptSens'[p])[k]) = 1]_vars

\* (C30) The outputs of evalFunctions, addDVSens, addXptSens,
\* addAdjointResProducts and addAdjointResXptSensProducts do not depend on
\* the thread count: whatever setNumThreads was given, each call returns
\* what the loop run by the calling thread alone returns.
SequentialSums(p, n) == [ k \in 1 .. n |-> AllElementTerms(p) ]

C30_EvaluationThreadCountInvariance ==
  [][\A p \in Procs : \A n \in CountInputs :
       pc'[p] # "crashed" =>
         /\ evalFunctions(p, n) => funcVals'[p] = Ptr(SequentialSums(p, n))
         /\ addDVSens(p, n) => fdvSens'[p] = Ptr(SequentialSums(p, n))
         /\ addXptSens(p, n) => fXptSens'[p] = Ptr(SequentialSums(p, n))
         /\ addAdjointResProducts(p, n) =>
              fdvSens'[p] = Ptr(AdjointProducts(p, n))
         /\ addAdjointResXptSensProducts(p, n) =>
              adjXptSens'[p] = Ptr(AdjointProducts(p, n))]_vars

\* (C28) When every process calls computeReordering() and then
\* initialize(), every call that a process has entered returns on that
\* process, also when another process finds a local configuration error in
\* its own call and returns early: no process stays inside a collective.
C28_CollectiveCallsReturn ==
  \A p \in Procs : (pc[p] # "idle") ~> (pc[p] = "idle")
====
